---- MODULE Spec2Model ----
(***************************************************************************)
(* Model of the inbound delivery path of slackmail:                        *)
(*   packages/core/src/presentation/slackApp.ts                            *)
(*     postEmailToSlack            (single delivery attempt)               *)
(*     createEmailReceivedHandler  (retry / backoff / dead-letter wrapper) *)
(*   packages/core/src/presentation/emailFormatter.ts                      *)
(*     formatEmailForSlack         (decides whether a file is attached)    *)
(*                                                                         *)
(* and of the outbound send path:                                          *)
(*   packages/core/src/application/usecases/sendMailUseCase.ts             *)
(*     SendMailUseCase.execute / validate (multi-tenant version)           *)
(*   infra/aws/src/infrastructure/sesMailRepository.ts                     *)
(*     SESMailRepository.sendEmail / validateSenderDomain                  *)
(*   infra/aws/src/infrastructure/dynamoDBTenantConfigRepository.ts        *)
(*     saveEmailLog                                                        *)
(*                                                                         *)
(* The chat client (postMessage, files.uploadV2, chat.update), the         *)
(* dead-letter handler, the configuration store and the mail service are   *)
(* external: every response they can give is an input chosen with \E.      *)
(* Each action is one stretch of code between two awaits.                  *)
(*                                                                         *)
(* Spec / FairSpec run one invocation of the email-received handler;       *)
(* SendSpec runs one invocation of SendMailUseCase.execute;                *)
(* ConfirmSpec runs one click on the Send button of the compose dialog     *)
(*   (slackApp.ts, registerMailSendingListeners, send_email_confirm);      *)
(* BatchSpec runs one invocation of the storage-event handler              *)
(*   (infra/aws/src/s3-handler.ts, rawHandler) over a batch of records;    *)
(* FormatSpec applies formatEmailForSlack to one Email;                    *)
(* UrlSpec applies parseMessageUrl (messageUrlParser.ts) to one URL.       *)
(***************************************************************************)
EXTENDS Integers, Sequences, FiniteSets, TLC

VARIABLES
  config,         \* EmailReceivedHandlerConfig: a function from the keys that are set
  channel,        \* channel argument, a sequence of characters
  email,          \* the Email being delivered
  pc,             \* position of the handler invocation
  retry,          \* loop variable of the retry loop
  attempts,       \* let attempts
  lastError,      \* let lastError
  postedTs,       \* result.ts of the postMessage of the running attempt
  sleeps,         \* every sleep(ms) made, in order
  calls,          \* every chat-client call made, in order
  failedRecords,  \* every FailedEmailRecord handed to onFailure, in order
  postCount,      \* number of postEmailToSlack invocations made (history)
  outcome         \* what the caller of the handler observes

\* state of one SendMailUseCase.execute(input, context)
VARIABLES
  input,          \* SendMailInput
  context,        \* SendMailContext
  spc,            \* position of execute
  tenantConfig,   \* const tenantConfig
  selectedDomain, \* let selectedDomain
  emailLog,       \* const emailLog, once built
  sendCalls,      \* every settled collaborator call, in order
  emailLogs,      \* the email_logs table, keyed by message_id
  sendOutcome     \* what the caller of execute observes

deliveryVars == <<config, channel, email, pc, retry, attempts, lastError, postedTs,
                  sleeps, calls, failedRecords, postCount, outcome>>

sendVars == <<input, context, spc, tenantConfig, selectedDomain, emailLog,
              sendCalls, emailLogs, sendOutcome>>

\* state of one run of the send_email_confirm action handler
VARIABLES
  mailConfig,     \* MailSendingConfig: which of its properties are set
  action,         \* body.actions[0] of the button click
  cpc,            \* position of the handler
  responses       \* every respond() made, in order

\* state of one invocation of the S3 rawHandler
VARIABLES
  event,              \* event.Records
  recordIndex,        \* position of the for loop in event.Records
  bpc,                \* position of rawHandler
  batchFailedRecords, \* const failedRecords
  batchLog,           \* every step of the processing of a record, in order
  batchOutcome        \* what the caller of rawHandler observes

\* one call of formatEmailForSlack and one call of parseMessageUrl
VARIABLES
  formatInput,    \* the Email given to formatEmailForSlack
  formatResult,   \* what formatEmailForSlack returned
  url,            \* the string given to parseMessageUrl
  parsedUrl       \* what parseMessageUrl returned or threw

confirmVars == <<mailConfig, action, cpc, responses>>

batchVars == <<event, recordIndex, bpc, batchFailedRecords, batchLog, batchOutcome>>

formatVars == <<formatInput, formatResult>>

urlVars == <<url, parsedUrl>>

restVars == <<confirmVars, batchVars, formatVars, urlVars>>

vars == <<deliveryVars, sendVars, restVars>>

(***************************************************************************)
(* Bounds of the model                                                     *)
(***************************************************************************)
MaxRetriesBound == 2
MaxChannelLen == 1
MaxRecords == 2

(***************************************************************************)
(* Program constants                                                       *)
(***************************************************************************)
DefaultMaxRetries == 2
DefaultInitialBackoffMs == 1000
BODY_TEXT_LIMIT == 2800
HEADER_TEXT_LIMIT == 140

nonRetryableCodes ==
  { "invalid_channel", "channel_not_found", "not_in_channel", "is_archived",
    "invalid_auth", "not_authed", "account_inactive", "token_revoked",
    "token_expired", "no_permission", "missing_scope" }

(***************************************************************************)
(* Inputs                                                                  *)
(***************************************************************************)
None == "none"

\* error codes the chat platform reports in result.error / error.data.error
PlatformCodes == nonRetryableCodes \cup {"rate_limited", "msg_too_long"}

\* message references the platform hands out
TsValues == {"1700000000.000100", "1700000000.000200"}

Chars == {" ", "C"}

RECURSIVE SeqsUpTo(_)
SeqsUpTo(n) ==
  IF n = 0 THEN {<<>>}
  ELSE LET shorter == SeqsUpTo(n - 1)
       IN  shorter \cup {Append(s, c) : s \in {t \in shorter : Len(t) = n - 1}, c \in Chars}

Channels == SeqsUpTo(MaxChannelLen)

\* an Email, as far as delivery looks at it: its id and the length of
\* getEmailBodyText(email.body)
Emails == [messageId : {"m1"}, bodyTextLen : {0, BODY_TEXT_LIMIT, BODY_TEXT_LIMIT + 1}]

BackoffValues == {1, 3}

\* every config object: each key is either absent (undefined) or set
Configs ==
  LET MR == {[k \in {} |-> 0]} \cup {[k \in {"maxRetries"} |-> n] : n \in (-1)..MaxRetriesBound}
      BO == {[k \in {} |-> 0]} \cup {[k \in {"initialBackoffMs"} |-> b] : b \in BackoffValues}
      OF == {[k \in {} |-> 0]} \cup {[k \in {"onFailure"} |-> 1]}
  IN  { [k \in (DOMAIN a \cup DOMAIN b \cup DOMAIN c) |->
            IF k \in DOMAIN a THEN a[k] ELSE IF k \in DOMAIN b THEN b[k] ELSE c[k]]
        : a \in MR, b \in BO, c \in OF }

\* responses of chat.postMessage that resolve
PostResults ==
  [ok : {TRUE}, ts : TsValues \cup {None}, error : {None}]
    \cup [ok : {FALSE}, ts : {None}, error : PlatformCodes \cup {None}]

\* values a chat-client call rejects with: { code?, data?: { error? } }
ThrownErrors ==
  [code : {"slack_webapi_platform_error"}, dataError : PlatformCodes \cup {None}]
    \cup [code : {"slack_webapi_rate_limited_error", None}, dataError : {None}]

(***************************************************************************)
(* Errors                                                                  *)
(***************************************************************************)
NoError == [type |-> "undefined", code |-> None]
SlackPostError(code) == [type |-> "SlackPostError", code |-> code]
HandlerError == [type |-> "Error", code |-> None]

(***************************************************************************)
(* createEmailReceivedHandler: configuration defaults                      *)
(***************************************************************************)
maxRetries ==
  IF "maxRetries" \in DOMAIN config THEN config["maxRetries"] ELSE DefaultMaxRetries

initialBackoffMs ==
  IF "initialBackoffMs" \in DOMAIN config THEN config["initialBackoffMs"]
  ELSE DefaultInitialBackoffMs

\* the default handler only logs; a configured handler may reject
onFailureMayReject == "onFailure" \in DOMAIN config

(***************************************************************************)
(* Pure helpers                                                            *)
(***************************************************************************)
RECURSIVE TrimStart(_)
TrimStart(s) ==
  IF Len(s) > 0 /\ Head(s) = " " THEN TrimStart(Tail(s)) ELSE s

RECURSIVE TrimEnd(_)
TrimEnd(s) ==
  IF Len(s) > 0 /\ s[Len(s)] = " " THEN TrimEnd(SubSeq(s, 1, Len(s) - 1)) ELSE s

Trim(s) == TrimEnd(TrimStart(s))

\* only the empty string is rejected
ChannelIsEmptyNoTrim(ch) == Len(ch) = 0

\* if (!channel || channel.trim().length === 0)
ChannelIsEmpty(ch) == Len(ch) = 0 \/ Len(Trim(ch)) = 0

\* formatEmailForSlack: bodyAsFile is set when bodyText.length > BODY_TEXT_LIMIT
bodyAsFile(e) ==
  IF e.bodyTextLen > BODY_TEXT_LIMIT
  THEN [present |-> TRUE, contentLen |-> e.bodyTextLen, filenameId |-> e.messageId]
  ELSE [present |-> FALSE, contentLen |-> 0, filenameId |-> None]

\* if (!result.ok || !result.ts)
PostResultFailed(result) == ~result.ok \/ result.ts = None

\* result.error || 'unknown_error'
PostResultErrorCode(result) ==
  IF result.error = None THEN "unknown_error" ELSE result.error

\* the wrapper's own code is passed on
MapThrownNoUnwrap(thrown) ==
  SlackPostError(IF thrown.code = None THEN "unknown_error" ELSE thrown.code)

\* the outer catch of postEmailToSlack, for a value that is not a SlackPostError
MapThrown(thrown) ==
  LET errorCode == IF thrown.code = None THEN "unknown_error" ELSE thrown.code
  IN  IF errorCode = "slack_webapi_platform_error"
      THEN SlackPostError(IF thrown.dataError = None
                          THEN "unknown_platform_error" ELSE thrown.dataError)
      ELSE SlackPostError(errorCode)

\* the file goes to the channel as a message of its own
UploadThreadTsTopLevel(ts) == None

\* thread_ts: result.ts
UploadThreadTs(ts) == ts

UploadRequest(ch, e, ts) ==
  [op |-> "files.uploadV2", channel |-> ch, ts |-> UploadThreadTs(ts),
   contentLen |-> bodyAsFile(e).contentLen, warning |-> FALSE, ok |-> TRUE]

\* the update leaves the blocks as they were posted
UpdateRequestNoWarning(ch, ts) ==
  [op |-> "chat.update", channel |-> ch, ts |-> ts,
   contentLen |-> 0, warning |-> FALSE, ok |-> TRUE]

\* chat.update({ channel, ts: result.ts, text, blocks: [...blocks, <warning context block>] })
UpdateRequest(ch, ts) ==
  [op |-> "chat.update", channel |-> ch, ts |-> ts,
   contentLen |-> 0, warning |-> TRUE, ok |-> TRUE]

PostRequest(ch) ==
  [op |-> "chat.postMessage", channel |-> ch, ts |-> None,
   contentLen |-> 0, warning |-> FALSE, ok |-> TRUE]

\* retry < maxRetries
LoopContinuesStrict(r, mr) == r < mr

\* for (let retry = 0; retry <= maxRetries; retry++)
LoopContinues(r, mr) == r <= mr

\* initialBackoffMs * 2 ** retry
BackoffMsFromRetry(initial, r) == initial * 2 ^ r

\* initialBackoffMs * 2 ** (retry - 1)
BackoffMs(initial, r) == initial * 2 ^ (r - 1)

\* no error ever breaks the loop
IsNonRetryableNever(err) == FALSE

\* every SlackPostError breaks the loop
IsNonRetryableAnySlackPostError(err) == err.type = "SlackPostError"

\* the list lacks token_expired
IsNonRetryableShortList(err) ==
  err.type = "SlackPostError" /\ err.code \in nonRetryableCodes \ {"token_expired"}

\* lastError instanceof SlackPostError && lastError.code && nonRetryableCodes.includes(code)
IsNonRetryable(err) ==
  err.type = "SlackPostError" /\ err.code # None /\ err.code \in nonRetryableCodes

(***************************************************************************)
(* Outbound send: inputs                                                   *)
(*                                                                         *)
(* Strings that the code splits, trims or compares are sequences of        *)
(* characters.  In an address "a" and "r" are local parts and "v", "V",    *)
(* "u" stand for domain names: "V" is "v" in another letter case, "u" is   *)
(* a different domain.                                                     *)
(***************************************************************************)
At == "@"

SenderAddresses ==
  { <<>>,
    <<"a">>,
    <<"a", At>>,
    <<"a", At, "v">>,
    <<"a", At, "V">>,
    <<"a", At, "u">>,
    <<"a", At, "v", At, "u">>,
    <<"a", At, At, "v">>,
    <<"a", At, "v", At>> }

NoAddress == <<>>
Recipient == <<"r", At, "u">>

\* EmailAddress[] values
RecipientLists == {<<>>, <<NoAddress>>, <<Recipient>>, <<Recipient, NoAddress>>}

\* an optional property: has = FALSE is undefined
Absent(v) == [has |-> FALSE, value |-> v]
Present(v) == [has |-> TRUE, value |-> v]

SendMailInputs ==
  [ from    : {Absent(NoAddress)} \cup {Present(a) : a \in SenderAddresses},
    to      : {Absent(<<>>)} \cup {Present(l) : l \in RecipientLists},
    cc      : {Absent(<<>>), Present(<<NoAddress>>), Present(<<Recipient>>)},
    bcc     : {Absent(<<>>), Present(<<NoAddress>>), Present(<<Recipient>>)},
    subject : {<<>>, <<" ">>, <<"s">>},
    body    : [text : {None, "", "t"}, html : {None, "h"}] ]

\* Domain rows of the configuration store
DomainV == [domainId |-> "d1", domain |-> <<"v">>, verificationStatus |-> "verified"]
DomainU == [domainId |-> "d2", domain |-> <<"u">>, verificationStatus |-> "verified"]
DomainPending == [domainId |-> "d3", domain |-> <<"v">>, verificationStatus |-> "pending"]

\* what getDomainsByTeamId can resolve with
DomainLists ==
  { <<>>, <<DomainV>>, <<DomainV, DomainU>>, <<DomainU, DomainV>>,
    <<DomainPending>>, <<DomainU, DomainPending>> }

NoDomain == [domainId |-> None, domain |-> <<>>, verificationStatus |-> None]

SendMailContexts ==
  [ slackTeamId : {"T1"}, slackChannelId : {"C1"}, slackUserId : {"U1"},
    selectedDomainId : {None, "d1", "d2", "d9"} ]

\* what getTenantConfig can resolve with
NullTenant == [teamId |-> None, status |-> None]
TenantT1 == [teamId |-> "T1", status |-> "active"]
TenantResults == {NullTenant, TenantT1}

\* result.MessageId of the SES response (None: undefined)
SesMessageIds == {None, "ses-1"}

\* email.messageId made by generateMessageId
LocalMessageId == "<local@slackmail>"

\* new Date(): epoch seconds and the milliseconds within the second
Dates == [sec : {0, 1700000000}, ms : {0, 999}]

\* seconds by which local time moves (daylight saving) within the 90 days
DstShifts == {-3600, 0, 3600}

NoLog ==
  [messageId |-> None, teamId |-> None, channelId |-> None, userId |-> None,
   fromAddress |-> <<>>, toAddresses |-> <<>>, subject |-> <<>>,
   status |-> None, ttl |-> 0]

\* a row already in email_logs
OldLog ==
  [messageId |-> "ses-1", teamId |-> "T1", channelId |-> "C1", userId |-> "U0",
   fromAddress |-> <<"a", At, "v">>, toAddresses |-> <<Recipient>>,
   subject |-> <<"o">>, status |-> "sent", ttl |-> 1]

EmailLogTables == {{}, {OldLog}}

NoInput ==
  [from |-> Absent(NoAddress), to |-> Absent(<<>>), cc |-> Absent(<<>>),
   bcc |-> Absent(<<>>), subject |-> <<>>, body |-> [text |-> None, html |-> None]]

NoContext ==
  [slackTeamId |-> "T1", slackChannelId |-> "C1", slackUserId |-> "U1",
   selectedDomainId |-> None]

\* no execute is running
SendIdle ==
  /\ input = NoInput
  /\ context = NoContext
  /\ spc = "off"
  /\ tenantConfig = NullTenant
  /\ selectedDomain = NoDomain
  /\ emailLog = NoLog
  /\ sendCalls = <<>>
  /\ emailLogs = {}
  /\ sendOutcome = [kind |-> "pending", value |-> None]

\* the emailData that the confirmation button carries as JSON
NoEmailData == [from |-> NoAddress, to |-> <<>>, subject |-> <<>>, body |-> ""]

\* no send_email_confirm handler is running
ConfirmIdle ==
  /\ mailConfig = [mailRepository |-> FALSE]
  /\ action = Absent(NoEmailData)
  /\ cpc = "off"
  /\ responses = <<>>

\* no rawHandler is running
BatchIdle ==
  /\ event = <<>>
  /\ recordIndex = 0
  /\ bpc = "off"
  /\ batchFailedRecords = <<>>
  /\ batchLog = <<>>
  /\ batchOutcome = [kind |-> "pending"]

\* formatEmailForSlack is not called
FormatIdle ==
  /\ formatInput = [messageId |-> None]
  /\ formatResult = [done |-> FALSE]

\* parseMessageUrl is not called
UrlIdle ==
  /\ url = <<>>
  /\ parsedUrl = [kind |-> "pending"]

RestIdle == ConfirmIdle /\ BatchIdle /\ FormatIdle /\ UrlIdle

(***************************************************************************)
(* State after createEmailReceivedHandler(app, channel, config) returned   *)
(* and the handler was called with an email                                *)
(***************************************************************************)
Init ==
  /\ config \in Configs
  /\ channel \in Channels
  /\ email \in Emails
  /\ pc = "loop"
  /\ retry = 0
  /\ attempts = 0
  /\ lastError = NoError
  /\ postedTs = None
  /\ sleeps = <<>>
  /\ calls = <<>>
  /\ failedRecords = <<>>
  /\ postCount = 0
  /\ outcome = [kind |-> "pending", error |-> NoError]
  /\ SendIdle
  /\ RestIdle

(***************************************************************************)
(* catch (error) of the retry loop: record the error, break or continue    *)
(***************************************************************************)
CatchInLoop(err) ==
  /\ lastError' = err
  /\ postedTs' = None
  /\ IF IsNonRetryable(err)
     THEN /\ pc' = "deadletter"
          /\ retry' = retry
     ELSE /\ pc' = "loop"
          /\ retry' = retry + 1

\* loop head up to the sleep: the loop test, attempts = retry + 1, the backoff
LoopHead ==
  /\ UNCHANGED sendVars
  /\ UNCHANGED restVars
  /\ pc = "loop"
  /\ IF LoopContinues(retry, maxRetries)
     THEN /\ attempts' = retry + 1
          /\ sleeps' = IF retry > 0
                       THEN Append(sleeps, BackoffMs(initialBackoffMs, retry))
                       ELSE sleeps
          /\ pc' = "post"
     ELSE /\ pc' = "deadletter"
          /\ UNCHANGED <<attempts, sleeps>>
  /\ UNCHANGED <<config, channel, email, retry, lastError, postedTs, calls,
                 failedRecords, postCount, outcome>>

\* postEmailToSlack up to the postMessage request: the channel check
PostValidate ==
  /\ UNCHANGED sendVars
  /\ UNCHANGED restVars
  /\ pc = "post"
  /\ postCount' = postCount + 1
  /\ IF ChannelIsEmpty(channel)
     THEN /\ CatchInLoop(SlackPostError("invalid_channel"))
     ELSE /\ pc' = "postMessage"
          /\ UNCHANGED <<retry, lastError, postedTs>>
  /\ UNCHANGED <<config, channel, email, attempts, sleeps, calls,
                 failedRecords, outcome>>

\* chat.postMessage resolves with result
PostMessageResolves(result) ==
  /\ UNCHANGED sendVars
  /\ UNCHANGED restVars
  /\ pc = "postMessage"
  /\ IF PostResultFailed(result)
     THEN /\ calls' = Append(calls, [PostRequest(channel) EXCEPT !.ok = FALSE])
          /\ CatchInLoop(SlackPostError(PostResultErrorCode(result)))
          /\ UNCHANGED outcome
     ELSE /\ calls' = Append(calls, [PostRequest(channel) EXCEPT !.ts = result.ts])
          /\ UNCHANGED <<retry, lastError>>
          /\ IF bodyAsFile(email).present
             THEN /\ pc' = "upload"
                  /\ postedTs' = result.ts
                  /\ UNCHANGED outcome
             ELSE /\ pc' = "delivered"
                  /\ postedTs' = None
                  /\ outcome' = [kind |-> "returned", error |-> NoError]
  /\ UNCHANGED <<config, channel, email, attempts, sleeps, failedRecords, postCount>>

\* chat.postMessage rejects with thrown
PostMessageRejects(thrown) ==
  /\ UNCHANGED sendVars
  /\ UNCHANGED restVars
  /\ pc = "postMessage"
  /\ calls' = Append(calls, [PostRequest(channel) EXCEPT !.ok = FALSE])
  /\ CatchInLoop(MapThrown(thrown))
  /\ UNCHANGED <<config, channel, email, attempts, sleeps, failedRecords, postCount,
                 outcome>>

\* files.uploadV2 resolves: postEmailToSlack returns result.ts, the handler returns
UploadResolves ==
  /\ UNCHANGED sendVars
  /\ UNCHANGED restVars
  /\ pc = "upload"
  /\ calls' = Append(calls, UploadRequest(channel, email, postedTs))
  /\ pc' = "delivered"
  /\ postedTs' = None
  /\ outcome' = [kind |-> "returned", error |-> NoError]
  /\ UNCHANGED <<config, channel, email, retry, attempts, lastError, sleeps,
                 failedRecords, postCount>>

\* files.uploadV2 rejects: the inner catch goes on to chat.update
UploadRejects ==
  /\ UNCHANGED sendVars
  /\ UNCHANGED restVars
  /\ pc = "upload"
  /\ calls' = Append(calls, [UploadRequest(channel, email, postedTs) EXCEPT !.ok = FALSE])
  /\ pc' = "update"
  /\ UNCHANGED <<config, channel, email, retry, attempts, lastError, postedTs,
                 sleeps, failedRecords, postCount, outcome>>

\* chat.update resolves: throw new SlackPostError(..., 'file_upload_error')
UpdateResolves ==
  /\ UNCHANGED sendVars
  /\ UNCHANGED restVars
  /\ pc = "update"
  /\ calls' = Append(calls, UpdateRequest(channel, postedTs))
  /\ CatchInLoop(SlackPostError("file_upload_error"))
  /\ UNCHANGED <<config, channel, email, attempts, sleeps, failedRecords, postCount,
                 outcome>>

\* chat.update rejects inside the inner catch: the outer catch maps that error
UpdateRejects(thrown) ==
  /\ UNCHANGED sendVars
  /\ UNCHANGED restVars
  /\ pc = "update"
  /\ calls' = Append(calls, [UpdateRequest(channel, postedTs) EXCEPT !.ok = FALSE])
  /\ CatchInLoop(MapThrown(thrown))
  /\ UNCHANGED <<config, channel, email, attempts, sleeps, failedRecords, postCount,
                 outcome>>

\* after the loop: build the FailedEmailRecord, await onFailure, throw lastError
\* lastError?.message || 'Unknown error': a message is told by the error
\* it is the message of; no error the handler catches has an empty message
ErrorMessage(err) ==
  IF err.type = "undefined" THEN [text |-> "Unknown error", of |-> NoError]
  ELSE [text |-> "message", of |-> err]

failedRecord ==
  [email |-> email, channel |-> channel,
   error |-> ErrorMessage(lastError),
   errorCode |-> IF lastError.type = "SlackPostError" THEN lastError.code ELSE None,
   attempts |-> attempts]

DeadLetter(handlerRejects) ==
  /\ UNCHANGED sendVars
  /\ UNCHANGED restVars
  /\ pc = "deadletter"
  /\ handlerRejects => onFailureMayReject
  /\ failedRecords' = Append(failedRecords, failedRecord)
  /\ pc' = "failed"
  /\ outcome' = [kind |-> "thrown",
                 error |-> IF handlerRejects THEN HandlerError ELSE lastError]
  /\ UNCHANGED <<config, channel, email, retry, attempts, lastError, postedTs,
                 sleeps, calls, postCount>>

Next ==
  \/ LoopHead
  \/ PostValidate
  \/ \E result \in PostResults : PostMessageResolves(result)
  \/ \E thrown \in ThrownErrors : PostMessageRejects(thrown)
  \/ UploadResolves
  \/ UploadRejects
  \/ UpdateResolves
  \/ \E thrown \in ThrownErrors : UpdateRejects(thrown)
  \/ \E handlerRejects \in BOOLEAN : DeadLetter(handlerRejects)

Spec == Init /\ [][Next]_vars

\* every await settles: the chat client and the handler answer, timers fire
FairSpec == Spec /\ WF_vars(Next)

TypeOK ==
  /\ config \in Configs
  /\ channel \in Channels
  /\ email \in Emails
  /\ pc \in {"off", "loop", "post", "postMessage", "upload", "update", "deadletter",
             "delivered", "failed"}
  /\ retry \in Nat
  /\ attempts \in Nat
  /\ postCount \in Nat
  /\ outcome.kind \in {"pending", "returned", "thrown"}

(***************************************************************************)
(* SendMailUseCase.validate                                                *)
(***************************************************************************)
HasEmptyAddress(list) == \E i \in 1..Len(list) : list[i] = NoAddress

\* !input.subject || input.subject.trim() === ''
SubjectIsBlank(subject) == Len(subject) = 0 \/ Len(Trim(subject)) = 0

\* !input.body.text && !input.body.html
BodyIsMissing(body) == body.text \in {None, ""} /\ body.html \in {None, ""}

\* the subject is checked before the recipients
ValidationErrorSubjectFirst(in) ==
  IF ~in.from.has \/ in.from.value = NoAddress THEN "From address is required"
  ELSE IF SubjectIsBlank(in.subject) THEN "Subject is required"
  ELSE IF ~in.to.has \/ Len(in.to.value) = 0 THEN "At least one To address is required"
  ELSE IF HasEmptyAddress(in.to.value) THEN "Invalid To address: address is required"
  ELSE IF in.cc.has /\ HasEmptyAddress(in.cc.value)
    THEN "Invalid CC address: address is required"
  ELSE IF in.bcc.has /\ HasEmptyAddress(in.bcc.value)
    THEN "Invalid BCC address: address is required"
  ELSE IF BodyIsMissing(in.body) THEN "Email body is required (text or html)"
  ELSE None

\* the body is not checked
ValidationErrorNoBodyCheck(in) ==
  IF ~in.from.has \/ in.from.value = NoAddress THEN "From address is required"
  ELSE IF ~in.to.has \/ Len(in.to.value) = 0 THEN "At least one To address is required"
  ELSE IF HasEmptyAddress(in.to.value) THEN "Invalid To address: address is required"
  ELSE IF in.cc.has /\ HasEmptyAddress(in.cc.value)
    THEN "Invalid CC address: address is required"
  ELSE IF in.bcc.has /\ HasEmptyAddress(in.bcc.value)
    THEN "Invalid BCC address: address is required"
  ELSE IF SubjectIsBlank(in.subject) THEN "Subject is required"
  ELSE None

\* the message of the Error that validate throws, None when it returns
ValidationError(in) ==
  IF ~in.from.has \/ in.from.value = NoAddress THEN "From address is required"
  ELSE IF ~in.to.has \/ Len(in.to.value) = 0 THEN "At least one To address is required"
  ELSE IF HasEmptyAddress(in.to.value) THEN "Invalid To address: address is required"
  ELSE IF in.cc.has /\ HasEmptyAddress(in.cc.value)
    THEN "Invalid CC address: address is required"
  ELSE IF in.bcc.has /\ HasEmptyAddress(in.bcc.value)
    THEN "Invalid BCC address: address is required"
  ELSE IF SubjectIsBlank(in.subject) THEN "Subject is required"
  ELSE IF BodyIsMissing(in.body) THEN "Email body is required (text or html)"
  ELSE None

(***************************************************************************)
(* SendMailUseCase.execute: tenant and domain resolution                   *)
(***************************************************************************)
\* a missing tenant config goes unnoticed
TenantConfigMissingNever(result) == FALSE

\* if (!tenantConfig)
TenantConfigMissing(result) == result = NullTenant

\* if (context.selectedDomainId)
DomainIsSelected(ctx) == ctx.selectedDomainId \notin {None, ""}

FirstMatch(domains, id) ==
  LET hits == {i \in 1..Len(domains) : domains[i].domainId = id}
  IN  IF hits = {} THEN 0 ELSE CHOOSE i \in hits : \A j \in hits : i <= j

\* an unknown selectedDomainId falls back to the first domain
SelectDomainFallback(domains, ctx) ==
  IF DomainIsSelected(ctx) /\ FirstMatch(domains, ctx.selectedDomainId) # 0
  THEN [error |-> None, domain |-> domains[FirstMatch(domains, ctx.selectedDomainId)]]
  ELSE [error |-> None, domain |-> domains[1]]

\* the selection is ignored
SelectDomainAlwaysFirst(domains, ctx) ==
  IF DomainIsSelected(ctx) /\ FirstMatch(domains, ctx.selectedDomainId) = 0
  THEN [error |-> "Domain not found for team", domain |-> NoDomain]
  ELSE [error |-> None, domain |-> domains[1]]

\* let selectedDomain = domains[0]; if (context.selectedDomainId) { find ... }
\* for a non-empty list of domains
SelectDomain(domains, ctx) ==
  IF DomainIsSelected(ctx)
  THEN LET found == FirstMatch(domains, ctx.selectedDomainId)
       IN  IF found = 0
           THEN [error |-> "Domain not found for team", domain |-> NoDomain]
           ELSE [error |-> None, domain |-> domains[found]]
  ELSE [error |-> None, domain |-> domains[1]]

(***************************************************************************)
(* SESMailRepository.validateSenderDomain                                  *)
(***************************************************************************)
\* String.prototype.split('@')
RECURSIVE Split(_)
Split(str) ==
  LET ats == {i \in 1..Len(str) : str[i] = At}
  IN  IF ats = {} THEN <<str>>
      ELSE LET i == CHOOSE k \in ats : \A j \in ats : k <= j
           IN  <<SubSeq(str, 1, i - 1)>> \o Split(SubSeq(str, i + 1, Len(str)))

\* sender.address.split('@')[1]; <<>> stands for undefined and for ''
senderDomainPart(address) ==
  LET parts == Split(address)
  IN  IF Len(parts) >= 2 THEN parts[2] ELSE <<>>

\* toLowerCase of a domain name
LowerChar(c) == IF c = "V" THEN "v" ELSE c
Lower(str) == [i \in 1..Len(str) |-> LowerChar(str[i])]

\* the domain names are compared without regard to case
SenderDomainErrorIgnoreCase(address, domain) ==
  IF senderDomainPart(address) = <<>> THEN "Invalid sender address: missing domain part"
  ELSE IF domain.verificationStatus # "verified" THEN "Domain is not verified"
  ELSE IF Lower(senderDomainPart(address)) # Lower(domain.domain)
    THEN "Invalid sender domain"
  ELSE None

\* the verification status is not looked at
SenderDomainErrorNoStatusCheck(address, domain) ==
  IF senderDomainPart(address) = <<>> THEN "Invalid sender address: missing domain part"
  ELSE IF senderDomainPart(address) # domain.domain THEN "Invalid sender domain"
  ELSE None

\* the message of the Error that validateSenderDomain throws, None when it returns
SenderDomainError(address, domain) ==
  IF senderDomainPart(address) = <<>> THEN "Invalid sender address: missing domain part"
  ELSE IF domain.verificationStatus # "verified" THEN "Domain is not verified"
  ELSE IF senderDomainPart(address) # domain.domain THEN "Invalid sender domain"
  ELSE None

(***************************************************************************)
(* SendMailUseCase.execute: the EmailLog                                   *)
(***************************************************************************)
SecondsPerDay == 86400

\* the log entry expires after 30 days
TtlDate30Days(now, dstShift) ==
  [sec |-> now.sec + 30 * SecondsPerDay + dstShift, ms |-> now.ms]

\* ttlDate.setDate(ttlDate.getDate() + 90): 90 calendar days in local time
TtlDate(now, dstShift) ==
  [sec |-> now.sec + 90 * SecondsPerDay + dstShift, ms |-> now.ms]

\* Math.floor(date.getTime() / 1000), with getTime() = 1000 * sec + ms
EpochSeconds(date) == date.sec + (date.ms \div 1000)

\* result.MessageId ?? email.messageId
DispatchedMessageId(sesMessageId) ==
  IF sesMessageId = None THEN LocalMessageId ELSE sesMessageId

BuildEmailLog(messageId, in, ctx, now, dstShift) ==
  [messageId |-> messageId,
   teamId |-> ctx.slackTeamId,
   channelId |-> ctx.slackChannelId,
   userId |-> ctx.slackUserId,
   fromAddress |-> in.from.value,
   toAddresses |-> in.to.value,
   subject |-> in.subject,
   status |-> "sent",
   ttl |-> EpochSeconds(TtlDate(now, dstShift))]

\* PutItem on a table whose hash key is message_id
PutItem(table, item) ==
  {row \in table : row.messageId # item.messageId} \cup {item}

SendCall(op, ok, result) == [op |-> op, ok |-> ok, result |-> result]

Throw(message) == [kind |-> "thrown", value |-> message]

\* execute catches the rejection of sendEmail and throws an Error of its own
UncaughtWrapped(message) == "Failed to send email"

\* const messageId = await this.mailRepository.sendEmail(email, sendContext)
\* stands in no try block: what sendEmail rejects with is what execute rejects with
Uncaught(message) == message

(***************************************************************************)
(* SendMailUseCase.execute, one action per stretch between two awaits      *)
(***************************************************************************)
DeliveryIdle ==
  /\ config = [k \in {} |-> 0]
  /\ channel = <<>>
  /\ email = [messageId |-> "m1", bodyTextLen |-> 0]
  /\ pc = "off"
  /\ retry = 0
  /\ attempts = 0
  /\ lastError = NoError
  /\ postedTs = None
  /\ sleeps = <<>>
  /\ calls = <<>>
  /\ failedRecords = <<>>
  /\ postCount = 0
  /\ outcome = [kind |-> "pending", error |-> NoError]

\* execute(input, context) has been called
SendInit ==
  /\ DeliveryIdle
  /\ RestIdle
  /\ input \in SendMailInputs
  /\ context \in SendMailContexts
  /\ spc = "validate"
  /\ tenantConfig = NullTenant
  /\ selectedDomain = NoDomain
  /\ emailLog = NoLog
  /\ sendCalls = <<>>
  /\ emailLogs \in EmailLogTables
  /\ sendOutcome = [kind |-> "pending", value |-> None]

\* this.validate(input), then the call of getTenantConfig
ExecuteValidate ==
  /\ spc = "validate"
  /\ IF ValidationError(input) # None
     THEN /\ spc' = "rejected"
          /\ sendOutcome' = Throw(ValidationError(input))
     ELSE /\ spc' = "getTenantConfig"
          /\ UNCHANGED sendOutcome
  /\ UNCHANGED <<input, context, tenantConfig, selectedDomain, emailLog,
                 sendCalls, emailLogs>>
  /\ UNCHANGED deliveryVars
  /\ UNCHANGED restVars

\* getTenantConfig resolves; then the call of getDomainsByTeamId
GetTenantConfigResolves(result) ==
  /\ spc = "getTenantConfig"
  /\ sendCalls' = Append(sendCalls, SendCall("getTenantConfig", TRUE, result))
  /\ IF TenantConfigMissing(result)
     THEN /\ spc' = "rejected"
          /\ sendOutcome' = Throw("Tenant configuration not found for team")
          /\ UNCHANGED tenantConfig
     ELSE /\ spc' = "getDomainsByTeamId"
          /\ tenantConfig' = result
          /\ UNCHANGED sendOutcome
  /\ UNCHANGED <<input, context, selectedDomain, emailLog, emailLogs>>
  /\ UNCHANGED deliveryVars
  /\ UNCHANGED restVars

GetTenantConfigRejects ==
  /\ spc = "getTenantConfig"
  /\ sendCalls' = Append(sendCalls, SendCall("getTenantConfig", FALSE, NullTenant))
  /\ spc' = "rejected"
  /\ sendOutcome' = Throw("Failed to get tenant config for team")
  /\ UNCHANGED <<input, context, tenantConfig, selectedDomain, emailLog, emailLogs>>
  /\ UNCHANGED deliveryVars
  /\ UNCHANGED restVars

\* getDomainsByTeamId resolves; the domain is selected, the Email and the
\* SendContext are built and mailRepository.sendEmail is called, which runs
\* validateSenderDomain before its first await
GetDomainsResolves(domains) ==
  /\ spc = "getDomainsByTeamId"
  /\ LET listed == SendCall("getDomainsByTeamId", TRUE, domains)
     IN
     IF Len(domains) = 0
     THEN /\ sendCalls' = Append(sendCalls, listed)
          /\ spc' = "rejected"
          /\ sendOutcome' = Throw("No email domains configured for team")
          /\ UNCHANGED selectedDomain
     ELSE LET selection == SelectDomain(domains, context)
          IN  IF selection.error # None
              THEN /\ sendCalls' = Append(sendCalls, listed)
                   /\ spc' = "rejected"
                   /\ sendOutcome' = Throw(selection.error)
                   /\ UNCHANGED selectedDomain
              ELSE LET guard == SenderDomainError(input.from.value, selection.domain)
                   IN  /\ selectedDomain' = selection.domain
                       /\ IF guard # None
                          THEN /\ sendCalls' = sendCalls \o
                                   << listed, SendCall("sendEmail", FALSE, selection.domain) >>
                               /\ spc' = "rejected"
                               /\ sendOutcome' = Throw(Uncaught(guard))
                          ELSE /\ sendCalls' = Append(sendCalls, listed)
                               /\ spc' = "sesSend"
                               /\ UNCHANGED sendOutcome
  /\ UNCHANGED <<input, context, tenantConfig, emailLog, emailLogs>>
  /\ UNCHANGED deliveryVars
  /\ UNCHANGED restVars

GetDomainsRejects ==
  /\ spc = "getDomainsByTeamId"
  /\ sendCalls' = Append(sendCalls, SendCall("getDomainsByTeamId", FALSE, <<>>))
  /\ spc' = "rejected"
  /\ sendOutcome' = Throw("Failed to get domains for team")
  /\ UNCHANGED <<input, context, tenantConfig, selectedDomain, emailLog, emailLogs>>
  /\ UNCHANGED deliveryVars
  /\ UNCHANGED restVars

\* sesClient.send resolves: sendEmail resolves with the message id, the
\* EmailLog is built and saveEmailLog is called
SesSendResolves(sesMessageId, now, dstShift) ==
  /\ spc = "sesSend"
  /\ sendCalls' = sendCalls \o
       << SendCall("ses.send", TRUE, sesMessageId),
          SendCall("sendEmail", TRUE, selectedDomain) >>
  /\ emailLog' = BuildEmailLog(DispatchedMessageId(sesMessageId), input, context,
                               now, dstShift)
  /\ spc' = "saveEmailLog"
  /\ UNCHANGED <<input, context, tenantConfig, selectedDomain, emailLogs, sendOutcome>>
  /\ UNCHANGED deliveryVars
  /\ UNCHANGED restVars

\* building the MIME message or sesClient.send rejects
SesSendRejects ==
  /\ spc = "sesSend"
  /\ sendCalls' = sendCalls \o
       << SendCall("ses.send", FALSE, None),
          SendCall("sendEmail", FALSE, selectedDomain) >>
  /\ spc' = "rejected"
  /\ sendOutcome' = Throw(Uncaught("Failed to send email via SES"))
  /\ UNCHANGED <<input, context, tenantConfig, selectedDomain, emailLog, emailLogs>>
  /\ UNCHANGED deliveryVars
  /\ UNCHANGED restVars

\* the PutItem of saveEmailLog resolves: return { messageId }
SaveEmailLogResolves ==
  /\ spc = "saveEmailLog"
  /\ sendCalls' = Append(sendCalls, SendCall("saveEmailLog", TRUE, emailLog))
  /\ emailLogs' = PutItem(emailLogs, emailLog)
  /\ spc' = "returned"
  /\ sendOutcome' = [kind |-> "returned", value |-> emailLog.messageId]
  /\ UNCHANGED <<input, context, tenantConfig, selectedDomain, emailLog>>
  /\ UNCHANGED deliveryVars
  /\ UNCHANGED restVars

\* the PutItem of saveEmailLog rejects
SaveEmailLogRejects ==
  /\ spc = "saveEmailLog"
  /\ sendCalls' = Append(sendCalls, SendCall("saveEmailLog", FALSE, emailLog))
  /\ spc' = "rejected"
  /\ sendOutcome' = Throw("Failed to save email log")
  /\ UNCHANGED <<input, context, tenantConfig, selectedDomain, emailLog, emailLogs>>
  /\ UNCHANGED deliveryVars
  /\ UNCHANGED restVars

SendNext ==
  \/ ExecuteValidate
  \/ \E result \in TenantResults : GetTenantConfigResolves(result)
  \/ GetTenantConfigRejects
  \/ \E domains \in DomainLists : GetDomainsResolves(domains)
  \/ GetDomainsRejects
  \/ \E sesMessageId \in SesMessageIds, now \in Dates, dstShift \in DstShifts :
       SesSendResolves(sesMessageId, now, dstShift)
  \/ SesSendRejects
  \/ SaveEmailLogResolves
  \/ SaveEmailLogRejects

SendSpec == SendInit /\ [][SendNext]_vars

(***************************************************************************)
(* registerMailSendingListeners: the send_email_confirm action handler     *)
(***************************************************************************)
\* JSON.parse(action.value): what the confirmation message put in the button
EmailDatas ==
  [ from    : {<<"a", At, "v">>, <<"a", At, "u">>, <<"a">>},
    to      : RecipientLists,
    subject : {<<>>, <<" ">>, <<"s">>},
    body    : {"", "t"} ]

\* body.actions?.[0]?.value, absent or the JSON of an emailData
ButtonActions == {Absent(NoEmailData)} \cup {Present(d) : d \in EmailDatas}

\* config.mailRepository is set, or (as in slack-handler.ts, which passes
\* sendMailUseCase and tenantConfigRepository) is undefined
MailConfigs == [mailRepository : BOOLEAN]

\* const email: Email = { messageId, from, to, subject, body: { text }, date }
ConfirmedEmail(emailData) ==
  [from |-> Present(emailData.from),
   to |-> Present(emailData.to),
   cc |-> Absent(<<>>),
   bcc |-> Absent(<<>>),
   subject |-> emailData.subject,
   body |-> [text |-> emailData.body, html |-> None]]

\* respond({ text: ':white_check_mark: Email sent successfully! ...' })
SentResponse(messageId) == [kind |-> "sent", detail |-> messageId]

\* respond({ text: ':x: Failed to send email: ...' })
FailedResponse(message) == [kind |-> "failed", detail |-> message]

\* the Send button has been clicked
ConfirmInit ==
  /\ DeliveryIdle
  /\ BatchIdle /\ FormatIdle /\ UrlIdle
  /\ input = NoInput
  /\ context = NoContext
  /\ spc = "off"
  /\ tenantConfig = NullTenant
  /\ selectedDomain = NoDomain
  /\ emailLog = NoLog
  /\ sendCalls = <<>>
  /\ emailLogs \in EmailLogTables
  /\ sendOutcome = [kind |-> "pending", value |-> None]
  /\ mailConfig \in MailConfigs
  /\ action \in ButtonActions
  /\ cpc = "ack"
  /\ responses = <<>>

\* await ack() resolves; the try block runs up to its first await
ConfirmAckResolves ==
  /\ cpc = "ack"
  /\ IF ~action.has
     THEN /\ responses' = Append(responses,
                            FailedResponse("Missing email data in button action"))
          /\ cpc' = "respondFailed"
          /\ UNCHANGED input
     ELSE IF ~mailConfig.mailRepository
     THEN /\ responses' = Append(responses, FailedResponse("TypeError"))
          /\ cpc' = "respondFailed"
          /\ input' = ConfirmedEmail(action.value)
     ELSE /\ input' = ConfirmedEmail(action.value)
          /\ cpc' = "sendEmail"
          /\ UNCHANGED responses
  /\ UNCHANGED <<context, spc, tenantConfig, selectedDomain, emailLog, sendCalls,
                 emailLogs, sendOutcome, mailConfig, action>>
  /\ UNCHANGED <<deliveryVars, batchVars, formatVars, urlVars>>

\* await ack() rejects, outside the try block
ConfirmAckRejects ==
  /\ cpc = "ack"
  /\ cpc' = "rejected"
  /\ UNCHANGED <<sendVars, mailConfig, action, responses>>
  /\ UNCHANGED <<deliveryVars, batchVars, formatVars, urlVars>>

\* config.mailRepository.sendEmail(email) resolves; respond is called
ConfirmSendEmailResolves(messageId) ==
  /\ cpc = "sendEmail"
  /\ sendCalls' = Append(sendCalls, SendCall("sendEmail", TRUE, NoDomain))
  /\ responses' = Append(responses, SentResponse(messageId))
  /\ cpc' = "respondSent"
  /\ UNCHANGED <<input, context, spc, tenantConfig, selectedDomain, emailLog,
                 emailLogs, sendOutcome, mailConfig, action>>
  /\ UNCHANGED <<deliveryVars, batchVars, formatVars, urlVars>>

\* config.mailRepository.sendEmail(email) rejects; the catch block responds
ConfirmSendEmailRejects ==
  /\ cpc = "sendEmail"
  /\ sendCalls' = Append(sendCalls, SendCall("sendEmail", FALSE, NoDomain))
  /\ responses' = Append(responses, FailedResponse("sendEmail rejected"))
  /\ cpc' = "respondFailed"
  /\ UNCHANGED <<input, context, spc, tenantConfig, selectedDomain, emailLog,
                 emailLogs, sendOutcome, mailConfig, action>>
  /\ UNCHANGED <<deliveryVars, batchVars, formatVars, urlVars>>

ConfirmRespondResolves ==
  /\ cpc \in {"respondSent", "respondFailed"}
  /\ cpc' = "done"
  /\ UNCHANGED <<sendVars, mailConfig, action, responses>>
  /\ UNCHANGED <<deliveryVars, batchVars, formatVars, urlVars>>

\* a rejected respond of the try block is caught and answered with the
\* failure text; a rejected respond of the catch block rejects the handler
ConfirmRespondRejects ==
  /\ cpc \in {"respondSent", "respondFailed"}
  /\ IF cpc = "respondSent"
     THEN /\ responses' = Append(responses, FailedResponse("respond rejected"))
          /\ cpc' = "respondFailed"
     ELSE /\ cpc' = "rejected"
          /\ UNCHANGED responses
  /\ UNCHANGED <<sendVars, mailConfig, action>>
  /\ UNCHANGED <<deliveryVars, batchVars, formatVars, urlVars>>

ConfirmNext ==
  \/ ConfirmAckResolves
  \/ ConfirmAckRejects
  \/ \E messageId \in {"ses-1", LocalMessageId} : ConfirmSendEmailResolves(messageId)
  \/ ConfirmSendEmailRejects
  \/ ConfirmRespondResolves
  \/ ConfirmRespondRejects

ConfirmSpec == ConfirmInit /\ [][ConfirmNext]_vars

(***************************************************************************)
(* s3-handler.ts: rawHandler, the handler of one S3 event                  *)
(***************************************************************************)
\* record.s3.object.key as S3 writes it: URL-encoded, '+' for a space
ObjectKeys == { <<"a", "+", "b">>, <<"a", "%", "2", "B">>, <<"+">> }

RECURSIVE BatchEvents(_)
BatchEvents(n) ==
  IF n = 0 THEN {<<>>}
  ELSE LET shorter == BatchEvents(n - 1)
       IN  shorter \cup
             {Append(records, [bucket |-> "inbox", key |-> k])
                : records \in {r \in shorter : Len(r) = n - 1}, k \in ObjectKeys}

\* key.replace(/\+/g, ' ')
PlusToSpace(key) == [i \in 1..Len(key) |-> IF key[i] = "+" THEN " " ELSE key[i]]

\* decodeURIComponent, for the escapes %2B and %20
RECURSIVE decodeURIComponent(_)
decodeURIComponent(str) ==
  IF Len(str) = 0 THEN <<>>
  ELSE IF Len(str) >= 3 /\ SubSeq(str, 1, 3) = <<"%", "2", "B">>
    THEN <<"+">> \o decodeURIComponent(SubSeq(str, 4, Len(str)))
  ELSE IF Len(str) >= 3 /\ SubSeq(str, 1, 3) = <<"%", "2", "0">>
    THEN <<" ">> \o decodeURIComponent(SubSeq(str, 4, Len(str)))
  ELSE <<Head(str)>> \o decodeURIComponent(Tail(str))

\* const key = decodeURIComponent(record.s3.object.key.replace(/\+/g, ' '))
StorageKey(record) == decodeURIComponent(PlusToSpace(record.key))

\* config.slackChannelId, checked to be non-empty when the module loads
SlackChannelId == <<"C">>

\* what the chat client answers while a batch is processed
BatchPostResults ==
  { [ok |-> TRUE, ts |-> "1700000000.000100", error |-> None],
    [ok |-> FALSE, ts |-> None, error |-> "rate_limited"] }

BatchThrownErrors ==
  { [code |-> "slack_webapi_platform_error", dataError |-> "channel_not_found"] }

\* the emails the parser returns
ParsedEmails == [messageId : {"m1"}, bodyTextLen : {0, BODY_TEXT_LIMIT + 1}]

FetchError == [type |-> "Error", code |-> "NoSuchKey"]
ParseError == [type |-> "Error", code |-> "ParseError"]

BatchStep(op, index) == [op |-> op, index |-> index]

\* failedRecords.push({ bucket, key, error: err })
FailedRecordOf(record, err) ==
  [bucket |-> record.bucket, key |-> StorageKey(record), error |-> err]

\* new BatchProcessingError(failedRecords, totalRecords)
BatchProcessingError(failed, total) ==
  [kind |-> "thrown", failedRecords |-> failed, totalRecords |-> total]

\* the handler goes on without awaiting useCase.execute
HandlerSettledAtOnce == TRUE

\* await useCase.execute(...): onEmailReceived has returned or thrown
HandlerSettled == pc \in {"delivered", "failed"}

\* the error is raised as soon as a record has failed
BatchIsOverAtFirstFailure(index, records, failed) ==
  index >= Len(records) \/ Len(failed) > 0

\* for (const record of event.Records): no record is left
BatchIsOver(index, records, failed) == index >= Len(records)

\* a failed record is logged and not collected
CollectNothing(failed, record, err) == failed

\* the catch block of the loop body
Collect(failed, record, err) == Append(failed, FailedRecordOf(record, err))

\* the event has been handed to rawHandler
BatchInit ==
  /\ DeliveryIdle
  /\ SendIdle
  /\ ConfirmIdle /\ FormatIdle /\ UrlIdle
  /\ event \in BatchEvents(MaxRecords)
  /\ recordIndex = 0
  /\ bpc = "loop"
  /\ batchFailedRecords = <<>>
  /\ batchLog = <<>>
  /\ batchOutcome = [kind |-> "pending"]

\* head of the for loop: the next record's fetch is started, or the loop is
\* left and the handler returns or throws the BatchProcessingError
BatchLoopHead ==
  /\ bpc = "loop"
  /\ IF BatchIsOver(recordIndex, event, batchFailedRecords)
     THEN /\ IF Len(batchFailedRecords) > 0
             THEN /\ bpc' = "thrown"
                  /\ batchOutcome' = BatchProcessingError(batchFailedRecords, Len(event))
             ELSE /\ bpc' = "returned"
                  /\ batchOutcome' = [kind |-> "returned"]
          /\ UNCHANGED <<recordIndex, batchLog>>
     ELSE /\ recordIndex' = recordIndex + 1
          /\ batchLog' = Append(batchLog, BatchStep("begin", recordIndex + 1))
          /\ bpc' = "fetch"
          /\ UNCHANGED batchOutcome
  /\ UNCHANGED <<event, batchFailedRecords>>
  /\ UNCHANGED <<deliveryVars, sendVars, confirmVars, formatVars, urlVars>>

\* storageRepository.fetchRawEmail resolves; the parser is called
BatchFetchResolves ==
  /\ bpc = "fetch"
  /\ batchLog' = Append(batchLog, BatchStep("fetched", recordIndex))
  /\ bpc' = "parse"
  /\ UNCHANGED <<event, recordIndex, batchFailedRecords, batchOutcome>>
  /\ UNCHANGED <<deliveryVars, sendVars, confirmVars, formatVars, urlVars>>

BatchFetchRejects ==
  /\ bpc = "fetch"
  /\ batchLog' = Append(batchLog, BatchStep("failed", recordIndex))
  /\ batchFailedRecords' = Collect(batchFailedRecords, event[recordIndex], FetchError)
  /\ bpc' = "loop"
  /\ UNCHANGED <<event, recordIndex, batchOutcome>>
  /\ UNCHANGED <<deliveryVars, sendVars, confirmVars, formatVars, urlVars>>

\* emailParser.parse resolves; onEmailReceived, a handler made by
\* createEmailReceivedHandler(app, config.slackChannelId), is called
BatchParseResolves(parsed) ==
  /\ bpc = "parse"
  /\ batchLog' = Append(batchLog, BatchStep("parsed", recordIndex))
  /\ bpc' = "deliver"
  /\ config' = [k \in {} |-> 0]
  /\ channel' = SlackChannelId
  /\ email' = parsed
  /\ pc' = "loop"
  /\ retry' = 0
  /\ attempts' = 0
  /\ lastError' = NoError
  /\ postedTs' = None
  /\ sleeps' = <<>>
  /\ calls' = <<>>
  /\ failedRecords' = <<>>
  /\ postCount' = 0
  /\ outcome' = [kind |-> "pending", error |-> NoError]
  /\ UNCHANGED <<event, recordIndex, batchFailedRecords, batchOutcome>>
  /\ UNCHANGED <<sendVars, confirmVars, formatVars, urlVars>>

BatchParseRejects ==
  /\ bpc = "parse"
  /\ batchLog' = Append(batchLog, BatchStep("failed", recordIndex))
  /\ batchFailedRecords' = Collect(batchFailedRecords, event[recordIndex], ParseError)
  /\ bpc' = "loop"
  /\ UNCHANGED <<event, recordIndex, batchOutcome>>
  /\ UNCHANGED <<deliveryVars, sendVars, confirmVars, formatVars, urlVars>>

\* onEmailReceived settles: useCase.execute returns, or the catch block
\* collects what the handler threw
BatchHandlerSettles ==
  /\ bpc = "deliver"
  /\ HandlerSettled
  /\ IF outcome.kind = "thrown"
     THEN /\ batchLog' = Append(batchLog, BatchStep("failed", recordIndex))
          /\ batchFailedRecords' =
               Collect(batchFailedRecords, event[recordIndex], outcome.error)
     ELSE /\ batchLog' = Append(batchLog, BatchStep("processed", recordIndex))
          /\ UNCHANGED batchFailedRecords
  /\ bpc' = "loop"
  /\ config' = [k \in {} |-> 0]
  /\ channel' = <<>>
  /\ email' = [messageId |-> "m1", bodyTextLen |-> 0]
  /\ pc' = "off"
  /\ retry' = 0
  /\ attempts' = 0
  /\ lastError' = NoError
  /\ postedTs' = None
  /\ sleeps' = <<>>
  /\ calls' = <<>>
  /\ failedRecords' = <<>>
  /\ postCount' = 0
  /\ outcome' = [kind |-> "pending", error |-> NoError]
  /\ UNCHANGED <<event, recordIndex, batchOutcome>>
  /\ UNCHANGED <<sendVars, confirmVars, formatVars, urlVars>>

BatchNext ==
  \/ BatchLoopHead
  \/ BatchFetchResolves
  \/ BatchFetchRejects
  \/ \E parsed \in ParsedEmails : BatchParseResolves(parsed)
  \/ BatchParseRejects
  \/ BatchHandlerSettles
  \/ LoopHead
  \/ PostValidate
  \/ \E result \in BatchPostResults : PostMessageResolves(result)
  \/ \E thrown \in BatchThrownErrors : PostMessageRejects(thrown)
  \/ UploadResolves
  \/ UploadRejects
  \/ UpdateResolves
  \/ \E thrown \in BatchThrownErrors : UpdateRejects(thrown)
  \/ DeadLetter(FALSE)

BatchSpec == BatchInit /\ [][BatchNext]_vars

(***************************************************************************)
(* emailFormatter.ts: formatEmailForSlack                                  *)
(* A string is the sequence of its UTF-16 code units, as String.length and *)
(* String.substring see it.                                                *)
(***************************************************************************)
\* the two code units of U+1F4E7 and a space: the template prefix of the
\* header and of the preview text
EnvelopePrefix == <<"D83D", "DCE7", " ">>

Ellipsis == <<".", ".", ".">>

\* '\n\n_Full email body attached as file._'
AttachedNote ==
  <<"\n", "\n", "_", "F", "u", "l", "l", " ", "e", "m", "a", "i", "l", " ", "b", "o", "d", "y", " ",
     "a", "t", "t", "a", "c", "h", "e", "d", " ", "a", "s", " ", "f", "i", "l", "e", ".", "_">>

NoBody == <<"(", "n", "o", " ", "b", "o", "d", "y", ")">>

WhiteSpace == {" ", "\n"}

RECURSIVE StringTrimStart(_)
StringTrimStart(str) ==
  IF Len(str) > 0 /\ Head(str) \in WhiteSpace THEN StringTrimStart(Tail(str)) ELSE str

RECURSIVE StringTrimEnd(_)
StringTrimEnd(str) ==
  IF Len(str) > 0 /\ str[Len(str)] \in WhiteSpace
  THEN StringTrimEnd(SubSeq(str, 1, Len(str) - 1))
  ELSE str

\* String.prototype.trim
StringTrim(str) == StringTrimEnd(StringTrimStart(str))

\* text.substring(0, end)
Substring(text, end) ==
  SubSeq(text, 1, IF end < 0 THEN 0 ELSE IF end > Len(text) THEN Len(text) ELSE end)

\* text.replace(/\n{3,}/g, '\n\n'): of a run of newlines the first two stay
RECURSIVE CollapseNewlines(_, _)
CollapseNewlines(text, run) ==
  IF Len(text) = 0 THEN <<>>
  ELSE IF Head(text) = "\n"
    THEN (IF run >= 2 THEN <<>> ELSE <<"\n">>) \o CollapseNewlines(Tail(text), run + 1)
  ELSE <<Head(text)>> \o CollapseNewlines(Tail(text), 0)

\* convertHtmlToText: html.raw is the markup, html.converted what the
\* html-to-text library returns for it
convertHtmlToText(html) == StringTrim(CollapseNewlines(html.converted, 0))

\* getEmailBodyText: '' and undefined are both falsy
getEmailBodyText(body) ==
  IF body.text.has /\ Len(body.text.value) > 0 THEN StringTrim(body.text.value)
  ELSE IF body.html.has /\ Len(body.html.value.raw) > 0
    THEN convertHtmlToText(body.html.value)
  ELSE NoBody

formatEmailAddress(address) ==
  IF address.name.has /\ Len(address.name.value) > 0
  THEN address.name.value \o <<" ", "<">> \o address.address \o <<">">>
  ELSE address.address

RECURSIVE formatEmailAddresses(_)
formatEmailAddresses(addresses) ==
  IF Len(addresses) = 0 THEN <<>>
  ELSE IF Len(addresses) = 1 THEN formatEmailAddress(addresses[1])
  ELSE formatEmailAddress(addresses[1]) \o <<",", " ">>
         \o formatEmailAddresses(Tail(addresses))

\* the ellipsis is appended to the whole text
truncateTextUncut(text, limit) ==
  IF Len(text) <= limit THEN text ELSE text \o Ellipsis

\* the ellipsis is appended to limit characters
truncateTextNoRoom(text, limit) ==
  IF Len(text) <= limit THEN text ELSE Substring(text, limit) \o Ellipsis

truncateText(text, limit) ==
  IF Len(text) <= limit THEN text ELSE Substring(text, limit - 3) \o Ellipsis

\* a body of exactly BODY_TEXT_LIMIT characters goes to a file
BodyExceedsLimitInclusive(bodyText) == Len(bodyText) >= BODY_TEXT_LIMIT

\* if (bodyText.length > BODY_TEXT_LIMIT)
BodyExceedsLimit(bodyText) == Len(bodyText) > BODY_TEXT_LIMIT

NoFile == [present |-> FALSE]

\* the file holds the preview
FileOfPreview(bodyText, messageId) ==
  [present |-> TRUE,
   content |-> truncateText(bodyText, BODY_TEXT_LIMIT),
   filename |-> <<"email-body-", messageId, ".txt">>]

\* { content: bodyText, filename: `email-body-${email.messageId}.txt` }
FileOf(bodyText, messageId) ==
  [present |-> TRUE,
   content |-> bodyText,
   filename |-> <<"email-body-", messageId, ".txt">>]

HeaderBlock(text) == [type |-> "header", text |-> text]
FieldsBlock(fields) == [type |-> "section", fields |-> fields]
DividerBlock == [type |-> "divider"]
TextBlock(text) == [type |-> "section", text |-> text]

formatEmailForSlack(e) ==
  LET fromText == formatEmailAddress(e.from)
      toText == formatEmailAddresses(e.to)
      ccText == IF e.cc.has THEN formatEmailAddresses(e.cc.value) ELSE <<>>
      headerText == truncateText(EnvelopePrefix \o e.subject, HEADER_TEXT_LIMIT)
      bodyText == getEmailBodyText(e.body)
      head == << HeaderBlock(headerText),
                 FieldsBlock(<< <<"*From:*", fromText>>, <<"*To:*", toText>> >>) >>
      cc == IF Len(ccText) > 0
            THEN << FieldsBlock(<< <<"*Cc:*", ccText>> >>) >>
            ELSE <<>>
  IN  [done |-> TRUE,
       text |-> EnvelopePrefix \o e.subject \o <<" ", "f", "r", "o", "m", " ">> \o fromText,
       blocks |->
         head \o cc \o
           << DividerBlock,
              TextBlock(IF BodyExceedsLimit(bodyText)
                        THEN truncateText(bodyText, BODY_TEXT_LIMIT) \o AttachedNote
                        ELSE bodyText) >>,
       bodyAsFile |->
         IF BodyExceedsLimit(bodyText) THEN FileOf(bodyText, e.messageId) ELSE NoFile]

\* a string of n characters whose i-th character tells i modulo 10
Digits == <<"0", "1", "2", "3", "4", "5", "6", "7", "8", "9">>
StringOfLength(n) == [i \in 1..n |-> Digits[(i % 10) + 1]]

SubjectLengths == {0, 1, 137, 138, 140, 141, 200}
BodyLengths == {1, 2800, 2801, 2900, 3100}

BodyTexts ==
  {Absent(<<>>), Present(<<>>), Present(<<" ", "\n">>)}
    \cup {Present(StringOfLength(n)) : n \in BodyLengths}
    \cup {Present(<<" ">> \o StringOfLength(n) \o <<"\n">>) : n \in {2800, 2801}}

HtmlBodies ==
  { Absent([raw |-> <<>>, converted |-> <<>>]),
    Present([raw |-> <<>>, converted |-> <<>>]),
    Present([raw |-> <<"<", "p", ">">>, converted |-> <<>>]),
    Present([raw |-> <<"<", "b", ">">>,
             converted |-> <<"h", "\n", "\n", "\n", "\n", "i", "\n">>]) }

Sender == [name |-> Present(<<"N">>), address |-> <<"a", At, "v">>]
Bare == [name |-> Absent(<<>>), address |-> <<"r", At, "u">>]

FormatEmails ==
  [ messageId : {"m1", "m2"},
    from      : {Sender, Bare},
    to        : {<<Bare>>, <<Sender, Bare>>},
    cc        : {Absent(<<>>), Present(<<>>), Present(<<Bare>>)},
    subject   : {StringOfLength(n) : n \in SubjectLengths},
    body      : [text : BodyTexts, html : HtmlBodies] ]

FormatInit ==
  /\ DeliveryIdle
  /\ SendIdle
  /\ ConfirmIdle /\ BatchIdle /\ UrlIdle
  /\ formatInput \in FormatEmails
  /\ formatResult = [done |-> FALSE]

\* formatEmailForSlack(email) is called and returns
FormatEmail ==
  /\ ~formatResult.done
  /\ formatResult' = formatEmailForSlack(formatInput)
  /\ UNCHANGED formatInput
  /\ UNCHANGED <<deliveryVars, sendVars, confirmVars, batchVars, urlVars>>

FormatNext == FormatEmail

FormatSpec == FormatInit /\ [][FormatNext]_vars

(***************************************************************************)
(* messageUrlParser.ts: parseMessageUrl                                    *)
(***************************************************************************)
StartsWith(text, prefix) ==
  /\ Len(text) >= Len(prefix)
  /\ SubSeq(text, 1, Len(prefix)) = prefix

EndsWith(text, suffix) ==
  /\ Len(text) >= Len(suffix)
  /\ SubSeq(text, Len(text) - Len(suffix) + 1, Len(text)) = suffix

\* the position of the first ch in text, 0 when there is none
IndexOf(text, ch) ==
  IF \E i \in 1..Len(text) : text[i] = ch
  THEN CHOOSE i \in 1..Len(text) :
         text[i] = ch /\ \A j \in 1..(i - 1) : text[j] # ch
  ELSE 0

\* [A-Z0-9]
UpperOrDigit ==
  {"A", "B", "C", "D", "E", "F", "G", "H", "I", "J", "K", "L", "M",
   "N", "O", "P", "Q", "R", "S", "T", "U", "V", "W", "X", "Y", "Z"}
    \cup {Digits[i] : i \in 1..10}

\* \d
DigitChars == {Digits[i] : i \in 1..10}

\* url.match(/^https:\/\/[^/]+\.slack\.com\/archives\/([A-Z0-9]+)\/p(\d+)$/):
\* neither the host nor the channel may hold a "/", so each ends at the first
\* "/" behind its start
MatchPattern(u) ==
  LET afterScheme == SubSeq(u, 9, Len(u))
      hostEnd == IndexOf(afterScheme, "/")
      host == SubSeq(afterScheme, 1, hostEnd - 1)
      afterHost == SubSeq(afterScheme, hostEnd + 1, Len(afterScheme))
      afterArchives == SubSeq(afterHost, 10, Len(afterHost))
      channelEnd == IndexOf(afterArchives, "/")
      channelPart == SubSeq(afterArchives, 1, channelEnd - 1)
      last == SubSeq(afterArchives, channelEnd + 1, Len(afterArchives))
      digits == SubSeq(last, 2, Len(last))
  IN  IF /\ StartsWith(u, <<"h", "t", "t", "p", "s", ":", "/", "/">>)
         /\ hostEnd > 0
         /\ EndsWith(host, <<".", "s", "l", "a", "c", "k", ".", "c", "o", "m">>)
         /\ Len(host) > 10
         /\ StartsWith(afterHost, <<"a", "r", "c", "h", "i", "v", "e", "s", "/">>)
         /\ channelEnd > 1
         /\ \A i \in 1..Len(channelPart) : channelPart[i] \in UpperOrDigit
         /\ Len(last) >= 2
         /\ last[1] = "p"
         /\ \A i \in 1..Len(digits) : digits[i] \in DigitChars
      THEN [matched |-> TRUE, channelId |-> channelPart, timestampStr |-> digits]
      ELSE [matched |-> FALSE]

MessageUrlParseError(message, detail) ==
  [kind |-> "thrown", name |-> "MessageUrlParseError",
   message |-> message, detail |-> detail]

\* a timestamp of exactly 10 digits is refused
TooShortInclusive(timestampStr) == Len(timestampStr) <= 10

\* if (timestampStr.length < 10)
TooShort(timestampStr) == Len(timestampStr) < 10

\* `${timestampStr.substring(0, 10)}.${timestampStr.substring(10)}`
ApiTimestamp(timestampStr) ==
  Substring(timestampStr, 10) \o <<".">>
    \o SubSeq(timestampStr, 11, Len(timestampStr))

parseMessageUrl(u) ==
  LET match == MatchPattern(u)
  IN  IF ~match.matched
      THEN MessageUrlParseError("Invalid Slack message URL format", u)
      ELSE IF TooShort(match.timestampStr)
      THEN MessageUrlParseError("Invalid timestamp format in URL", match.timestampStr)
      ELSE [kind |-> "returned",
            channelId |-> match.channelId,
            timestamp |-> ApiTimestamp(match.timestampStr)]

Schemes == {<<"h", "t", "t", "p", "s", ":", "/", "/">>, <<"h", "t", "t", "p", ":", "/", "/">>}
Workspaces == {<<>>, <<"w">>, <<"a", ".", "b">>, <<"a", "/", "b">>}
HostSuffixes == {<<".", "s", "l", "a", "c", "k", ".", "c", "o", "m">>, <<".", "s", "l", "a", "c", "k", ".", "o", "r", "g">>}
ChannelIds == {<<>>, <<"C", "1">>, <<"c", "1">>}
DigitCounts == {0, 1, 9, 10, 11, 16}
Trailers == {<<>>, <<"?", "x">>}

ComposeUrl(scheme, workspace, suffix, channelId, digits, trailer) ==
  scheme \o workspace \o suffix \o <<"/", "a", "r", "c", "h", "i", "v", "e", "s", "/">>
    \o channelId \o <<"/", "p">> \o digits \o trailer

MessageUrls ==
  { ComposeUrl(s, w, h, c, StringOfLength(n), t) :
      s \in Schemes, w \in Workspaces, h \in HostSuffixes,
      c \in ChannelIds, n \in DigitCounts, t \in Trailers }

UrlInit ==
  /\ DeliveryIdle
  /\ SendIdle
  /\ ConfirmIdle /\ BatchIdle /\ FormatIdle
  /\ url \in MessageUrls
  /\ parsedUrl = [kind |-> "pending"]

\* parseMessageUrl(url) is called and returns or throws
ParseMessageUrl ==
  /\ parsedUrl.kind = "pending"
  /\ parsedUrl' = parseMessageUrl(url)
  /\ UNCHANGED url
  /\ UNCHANGED <<deliveryVars, sendVars, confirmVars, batchVars, formatVars>>

UrlNext == ParseMessageUrl

UrlSpec == UrlInit /\ [][UrlNext]_vars

(***************************************************************************)
(* Vocabulary of the properties                                            *)
(***************************************************************************)
\* positions inside one invocation of postEmailToSlack
AttemptPcs == {"post", "postMessage", "upload", "update"}

\* the loop has been left without a successful post
DeadLettering == pc \in {"deadletter", "failed"}

CallsOf(op) == {i \in 1..Len(calls) : calls[i].op = op}

\* the step ends an attempt with a thrown error
AttemptFails == pc \in AttemptPcs /\ pc' \in {"loop", "deadletter"}

\* the codes the specification lists as non-retryable
ListedNonRetryable ==
  { "invalid_channel", "channel_not_found", "not_in_channel", "is_archived",
    "invalid_auth", "not_authed", "account_inactive", "token_revoked",
    "token_expired", "no_permission", "missing_scope" }

\* the channel identifier is empty or consists of whitespace only
BlankChannel == \A i \in 1..Len(channel) : channel[i] = " "

(***************************************************************************)
(* C1: with maxRetries = N >= 0 and every attempt failing with a retryable *)
(* error, chat.postMessage has been called exactly N + 1 times when the    *)
(* handler dead-letters.                                                   *)
(***************************************************************************)
RetryCountInvariant ==
  (DeadLettering /\ maxRetries >= 0 /\ lastError # NoError
     /\ lastError.code \notin ListedNonRetryable)
    => /\ Cardinality(CallsOf("chat.postMessage")) = maxRetries + 1
       /\ postCount = maxRetries + 1

RetryCountWitness ==
  /\ pc = "failed"
  /\ "maxRetries" \in DOMAIN config /\ maxRetries = 2
  /\ lastError.code = "rate_limited"
  /\ Cardinality(CallsOf("chat.postMessage")) = 3

(***************************************************************************)
(* C2: an attempt k that fails with a non-retryable code goes straight to  *)
(* dead-lettering: postEmailToSlack has been invoked k times, k - 1 waits  *)
(* were made, and dead-lettering makes no further call or wait.            *)
(***************************************************************************)
NonRetryableShortCircuit ==
  [][ /\ (AttemptFails /\ lastError'.code \in ListedNonRetryable)
          => /\ pc' = "deadletter"
             /\ postCount' = attempts
             /\ sleeps' = sleeps /\ Len(sleeps) = attempts - 1
      /\ (pc = "deadletter" /\ lastError.code \in ListedNonRetryable)
          => /\ pc' = "failed"
             /\ postCount' = postCount /\ calls' = calls /\ sleeps' = sleeps
    ]_vars

NonRetryableShortCircuitWitness ==
  /\ pc = "failed"
  /\ maxRetries = 2
  /\ attempts = 2 /\ postCount = 2 /\ Len(sleeps) = 1
  /\ lastError.code = "channel_not_found"

(***************************************************************************)
(* C3: once a threaded upload has failed, the message is not posted again  *)
(* in the same invocation.                                                 *)
(***************************************************************************)
NoRepostAfterUploadFailure ==
  \A i \in CallsOf("files.uploadV2") :
    ~calls[i].ok => \A j \in (i + 1)..Len(calls) : calls[j].op # "chat.postMessage"

(***************************************************************************)
(* C4: when the invocation ends after at least one failed attempt, the     *)
(* dead-letter handler was called exactly once and the caller receives the *)
(* last delivery error.                                                    *)
(***************************************************************************)
DeadLetterThenRethrow ==
  (pc = "failed" /\ lastError # NoError)
    => /\ Len(failedRecords) = 1
       /\ outcome = [kind |-> "thrown", error |-> lastError]

(***************************************************************************)
(* C5: every invocation ends, after at most maxRetries + 1 attempts, in    *)
(* exactly one of Delivered or DeadLettered; nothing happens after         *)
(* Delivered, no handler call included; DeadLettered comes only after a    *)
(* non-retryable error or after the attempts are exhausted.                *)
(***************************************************************************)
Terminal == pc \in {"delivered", "failed"}

TerminalStatesOK ==
  /\ postCount <= (IF maxRetries >= 0 THEN maxRetries + 1 ELSE 0)
  /\ pc = "delivered"
       => /\ outcome.kind = "returned"
          /\ failedRecords = <<>>
          /\ calls # <<>> /\ calls[Len(calls)].ok
          /\ Len(sleeps) = postCount - 1
  /\ DeadLettering
       => /\ outcome.kind # "returned"
          /\ \/ lastError.code \in ListedNonRetryable
             \/ postCount >= maxRetries + 1
  /\ pc = "failed" => outcome.kind = "thrown" /\ Len(failedRecords) = 1

DeliveryTerminates ==
  /\ <>Terminal
  /\ []TerminalStatesOK
  /\ [][Terminal => UNCHANGED vars]_vars

DeliveryTerminatesWitness ==
  /\ pc = "delivered"
  /\ postCount = 3
  /\ lastError.code = "file_upload_error"

(***************************************************************************)
(* C6: a failed attempt leads to dead-lettering at once exactly when its   *)
(* error code is one of the listed codes; with any other code the loop     *)
(* goes on, and dead-letters only when retry has passed maxRetries.        *)
(***************************************************************************)
ErrorClassification ==
  /\ [][AttemptFails
          => /\ (pc' = "deadletter") <=> (lastError'.code \in ListedNonRetryable)
             /\ (pc' = "loop") => retry' = retry + 1
       ]_vars
  /\ []((pc = "deadletter" /\ lastError.code \notin ListedNonRetryable)
          => retry > maxRetries)
  /\ []((pc = "loop" /\ retry <= maxRetries) => ENABLED (LoopHead /\ pc' = "post"))

ErrorClassificationWitness ==
  /\ pc = "postMessage"
  /\ retry = 2
  /\ lastError.code \in {"rate_limited", "unknown_platform_error"}

(***************************************************************************)
(* C7: attempt 1 starts without a wait and the n-th wait lasts             *)
(* initialBackoffMs * 2^(n-1); with no maxRetries and no initialBackoffMs  *)
(* configured the waits are 1000 then 2000.                                *)
(***************************************************************************)
BackoffSchedule ==
  /\ attempts >= 1 => Len(sleeps) = attempts - 1
  /\ attempts = 0 => sleeps = <<>>
  /\ \A n \in 1..Len(sleeps) :
       sleeps[n] = (IF "initialBackoffMs" \in DOMAIN config
                    THEN config["initialBackoffMs"] ELSE 1000) * 2 ^ (n - 1)
  /\ (DOMAIN config \cap {"maxRetries", "initialBackoffMs"} = {})
       => /\ \A n \in 1..Len(sleeps) : sleeps[n] = <<1000, 2000>>[n]
          /\ (DeadLettering /\ lastError.code \notin ListedNonRetryable)
               => sleeps = <<1000, 2000>>

BackoffScheduleWitness ==
  /\ DOMAIN config \cap {"maxRetries", "initialBackoffMs"} = {}
  /\ pc = "failed"
  /\ sleeps = <<1000, 2000>>

(***************************************************************************)
(* C8: a file is uploaded only for an email with a file attachment, only   *)
(* right after a postMessage that succeeded, and with thread_ts equal to   *)
(* the ts of that message; a delivered email with an attachment has had    *)
(* its file uploaded.                                                      *)
(***************************************************************************)
UploadIsThreadedReply ==
  /\ \A i \in CallsOf("files.uploadV2") :
       /\ email.bodyTextLen > 2800
       /\ i > 1
       /\ calls[i - 1].op = "chat.postMessage"
       /\ calls[i - 1].ok
       /\ calls[i].ts # None
       /\ calls[i].ts = calls[i - 1].ts
       /\ calls[i].contentLen = email.bodyTextLen
  /\ email.bodyTextLen <= 2800 => CallsOf("files.uploadV2") = {}
  /\ (pc = "delivered" /\ email.bodyTextLen > 2800)
       => calls[Len(calls)].op = "files.uploadV2"

UploadIsThreadedReplyWitness ==
  /\ pc = "delivered"
  /\ Cardinality(CallsOf("files.uploadV2")) = 2
  /\ calls[Len(calls)].ts # calls[2].ts

(***************************************************************************)
(* C9: a failed upload is followed at once by a chat.update of the posted  *)
(* message (same ts, warning block appended), and file_upload_error is     *)
(* raised only after that update.                                          *)
(***************************************************************************)
UploadFailureEditsMessage ==
  /\ \A i \in CallsOf("files.uploadV2") :
       ~calls[i].ok
         => IF i = Len(calls) THEN pc = "update"
            ELSE /\ calls[i + 1].op = "chat.update"
                 /\ calls[i + 1].ts = calls[i - 1].ts
                 /\ calls[i + 1].channel = channel
                 /\ calls[i + 1].warning
  /\ (pc \in {"loop", "deadletter", "failed"} /\ lastError.code = "file_upload_error")
       => /\ Len(calls) >= 3
          /\ calls[Len(calls)].op = "chat.update"
          /\ calls[Len(calls)].ok
          /\ calls[Len(calls)].warning
          /\ calls[Len(calls)].ts = calls[Len(calls) - 2].ts
          /\ calls[Len(calls) - 1].op = "files.uploadV2"
          /\ ~calls[Len(calls) - 1].ok

UploadFailureEditsMessageWitness ==
  /\ pc = "loop"
  /\ lastError.code = "file_upload_error"
  /\ calls[Len(calls)].op = "chat.update"
  /\ calls[Len(calls)].warning

(***************************************************************************)
(* C10: with an empty or whitespace-only channel no chat-client call is    *)
(* ever made, the one attempt fails with invalid_channel, and there is no  *)
(* wait and no second attempt.                                             *)
(***************************************************************************)
EmptyChannelRejected ==
  BlankChannel
    => /\ calls = <<>>
       /\ sleeps = <<>>
       /\ postCount <= 1
       /\ pc \notin {"postMessage", "upload", "update"}
       /\ postCount = 1 /\ pc # "post"
            => /\ DeadLettering
               /\ lastError = SlackPostError("invalid_channel")

EmptyChannelRejectedWitness ==
  /\ channel = <<" ">>
  /\ maxRetries = 2
  /\ pc = "failed"
  /\ postCount = 1
  /\ lastError.code = "invalid_channel"

(***************************************************************************)
(* C11: when chat.postMessage rejects with the wrapper                     *)
(* slack_webapi_platform_error, postEmailToSlack throws a SlackPostError   *)
(* whose code is the wrapper's data.error, or unknown_platform_error when  *)
(* the wrapper has no data.error.                                          *)
(***************************************************************************)
PlatformErrorUnwrapped ==
  [][\A thrown \in ThrownErrors :
       (PostMessageRejects(thrown) /\ thrown.code = "slack_webapi_platform_error")
         => /\ lastError'.type = "SlackPostError"
            /\ lastError'.code # "slack_webapi_platform_error"
            /\ thrown.dataError # None => lastError'.code = thrown.dataError
            /\ thrown.dataError = None => lastError'.code = "unknown_platform_error"
    ]_vars

PlatformErrorUnwrappedWitness ==
  /\ pc = "loop"
  /\ calls # <<>>
  /\ calls[Len(calls)].op = "chat.postMessage" /\ ~calls[Len(calls)].ok
  /\ lastError = SlackPostError("unknown_platform_error")

(***************************************************************************)
(* Vocabulary of the properties of the send path                           *)
(***************************************************************************)
CallIndexes(cs, op) == {i \in 1..Len(cs) : cs[i].op = op}

\* the kinds of violation an input has: 1 from.address missing, 2 to empty,
\* 3 a to/cc/bcc entry without address, 4 subject empty or blank,
\* 5 neither body.text nor body.html
InputViolations(in) ==
  {r \in 1..5 :
     \/ r = 1 /\ (in.from.has => Len(in.from.value) = 0)
     \/ r = 2 /\ (in.to.has => Len(in.to.value) = 0)
     \/ r = 3 /\ \E l \in {in.to, in.cc, in.bcc} :
                   l.has /\ \E i \in 1..Len(l.value) : Len(l.value[i]) = 0
     \/ r = 4 /\ \A i \in 1..Len(in.subject) : in.subject[i] = " "
     \/ r = 5 /\ in.body.text \in {None, ""} /\ in.body.html \in {None, ""}}

MessagesOfViolation(r) ==
  CASE r = 1 -> {"From address is required"}
    [] r = 2 -> {"At least one To address is required"}
    [] r = 3 -> {"Invalid To address: address is required",
                 "Invalid CC address: address is required",
                 "Invalid BCC address: address is required"}
    [] r = 4 -> {"Subject is required"}
    [] r = 5 -> {"Email body is required (text or html)"}

ValidationMessages == UNION {MessagesOfViolation(r) : r \in 1..5}

EarliestViolation(in) ==
  CHOOSE r \in InputViolations(in) : \A q \in InputViolations(in) : r <= q

\* the selectedDomainId of the context is the id of no domain of the list
SelectionUnmatched(ctx, domains) ==
  /\ ctx.selectedDomainId # None
  /\ \A k \in 1..Len(domains) : domains[k].domainId # ctx.selectedDomainId

\* the send cannot go on: a violation in the input, a lookup that failed or
\* found nothing, or a sendEmail that rejected
Aborted(cs, in, ctx) ==
  \/ InputViolations(in) # {}
  \/ \E i \in CallIndexes(cs, "getTenantConfig") :
       ~cs[i].ok \/ cs[i].result = NullTenant
  \/ \E i \in CallIndexes(cs, "getDomainsByTeamId") :
       \/ ~cs[i].ok
       \/ Len(cs[i].result) = 0
       \/ SelectionUnmatched(ctx, cs[i].result)
  \/ \E i \in CallIndexes(cs, "sendEmail") : ~cs[i].ok

\* the SES client has been called, or is being called
Dispatching ==
  \/ spc \in {"sesSend", "saveEmailLog", "returned"}
  \/ CallIndexes(sendCalls, "ses.send") # {}

(***************************************************************************)
(* C12: when execute is rejected at validation, at the tenant or domain    *)
(* lookup, at the sender-domain guard or at the dispatch, email_logs is    *)
(* left as it was and saveEmailLog has not been called; email_logs changes *)
(* only after a sendEmail call that resolved.                              *)
(***************************************************************************)
NoLogWriteOnRejection ==
  [][ /\ Aborted(sendCalls', input', context')
           => /\ emailLogs' = emailLogs
              /\ CallIndexes(sendCalls', "saveEmailLog") = {}
      /\ (sendOutcome'.kind = "thrown" /\ CallIndexes(sendCalls', "saveEmailLog") = {})
           => emailLogs' = emailLogs
      /\ (emailLogs' # emailLogs \/ CallIndexes(sendCalls', "saveEmailLog") # {})
           => \E i \in CallIndexes(sendCalls', "sendEmail") :
                /\ sendCalls'[i].ok
                /\ \A j \in CallIndexes(sendCalls', "saveEmailLog") : i < j
    ]_vars

NoLogWriteOnRejectionWitness ==
  /\ sendOutcome = Throw("Failed to send email via SES")
  /\ \E i \in CallIndexes(sendCalls, "ses.send") : ~sendCalls[i].ok
  /\ CallIndexes(sendCalls, "saveEmailLog") = {}
  /\ emailLogs = {OldLog}

\* the positions of '@' in an address
AtPositions(address) == {i \in 1..Len(address) : address[i] = At}

\* the domain of an address: what follows its last '@'
DomainOfAddress(address) ==
  IF AtPositions(address) = {} THEN <<>>
  ELSE LET last == CHOOSE i \in AtPositions(address) :
                     \A j \in AtPositions(address) : j <= i
       IN  SubSeq(address, last + 1, Len(address))

\* the address has a domain, and it is no verified domain of the list
OutsideVerifiedDomains(address, domains) ==
  /\ DomainOfAddress(address) # <<>>
  /\ \A k \in 1..Len(domains) :
       domains[k].verificationStatus = "verified"
         => domains[k].domain # DomainOfAddress(address)

(***************************************************************************)
(* C13: when the domain of from.address is none of the verified domains    *)
(* that getDomainsByTeamId returned, execute is rejected without a call of *)
(* the SES client and without a call of saveEmailLog.                      *)
(***************************************************************************)
OutsideDomainRejectedBeforeDispatch ==
  \A i \in CallIndexes(sendCalls, "getDomainsByTeamId") :
    (sendCalls[i].ok /\ OutsideVerifiedDomains(input.from.value, sendCalls[i].result))
      => /\ ~Dispatching
         /\ CallIndexes(sendCalls, "saveEmailLog") = {}
         /\ spc = "rejected"

(***************************************************************************)
(* C14: the guard lets an address pass only if the characters of the       *)
(* resolved domain's name follow one of its '@' exactly, upper and lower   *)
(* case distinguished; a@V with the resolved domain v is rejected as an    *)
(* invalid sender domain.                                                  *)
(***************************************************************************)
GuardIsCaseSensitive ==
  /\ Dispatching
       => \E i \in AtPositions(input.from.value) :
            /\ i + Len(selectedDomain.domain) <= Len(input.from.value)
            /\ \A k \in 1..Len(selectedDomain.domain) :
                 input.from.value[i + k] = selectedDomain.domain[k]
  /\ ( /\ selectedDomain # NoDomain
       /\ selectedDomain.verificationStatus = "verified"
       /\ DomainOfAddress(input.from.value) # selectedDomain.domain
       /\ Lower(DomainOfAddress(input.from.value)) = Lower(selectedDomain.domain) )
       => /\ ~Dispatching
          /\ sendOutcome = Throw("Invalid sender domain")

GuardIsCaseSensitiveWitness ==
  /\ input.from.value = <<"a", At, "V">>
  /\ selectedDomain = DomainV
  /\ sendOutcome = Throw("Invalid sender domain")
  /\ \E i \in CallIndexes(sendCalls, "sendEmail") : ~sendCalls[i].ok

EmailLogWritten ==
  [][ /\ \A sesMessageId \in SesMessageIds, now \in Dates, dstShift \in DstShifts :
           SesSendResolves(sesMessageId, now, dstShift)
             => /\ emailLog'.status = "sent"
                /\ emailLog'.ttl \in Nat
                /\ emailLog'.ttl > 0
                /\ emailLog'.ttl - (now.sec + 7776000) \in -3600..3600
                /\ dstShift = 0 => emailLog'.ttl = now.sec + 7776000
      /\ sendOutcome'.kind = "returned"
           => /\ Cardinality(CallIndexes(sendCalls', "saveEmailLog")) = 1
              /\ \A i \in CallIndexes(sendCalls', "saveEmailLog") :
                   /\ sendCalls'[i].ok
                   /\ sendCalls'[i].result.status = "sent"
                   /\ sendCalls'[i].result.ttl > 0
                   /\ sendCalls'[i].result \in emailLogs'
                   /\ sendCalls'[i].result.messageId = sendOutcome'.value
    ]_vars

EmailLogWrittenWitness ==
  /\ sendOutcome.kind = "returned"
  /\ emailLog.status = "sent"
  /\ emailLog.ttl = 1700000000 + 7776000
  /\ emailLog \in emailLogs

(***************************************************************************)
(* C17: execute is rejected with 'Tenant configuration not found' when     *)
(* getTenantConfig resolves with null; otherwise with 'No email domains    *)
(* configured' when getDomainsByTeamId resolves with an empty list;        *)
(* otherwise with 'Domain not found' when the context has a                *)
(* selectedDomainId that is the id of no domain of the list.               *)
(***************************************************************************)
ResolutionErrors ==
  /\ \A i \in CallIndexes(sendCalls, "getTenantConfig") :
       (sendCalls[i].ok /\ sendCalls[i].result = NullTenant)
         => /\ sendOutcome = Throw("Tenant configuration not found for team")
            /\ CallIndexes(sendCalls, "getDomainsByTeamId") = {}
  /\ \A i \in CallIndexes(sendCalls, "getDomainsByTeamId") :
       /\ (sendCalls[i].ok /\ Len(sendCalls[i].result) = 0)
            => sendOutcome = Throw("No email domains configured for team")
       /\ ( /\ sendCalls[i].ok
            /\ Len(sendCalls[i].result) > 0
            /\ SelectionUnmatched(context, sendCalls[i].result) )
            => /\ sendOutcome = Throw("Domain not found for team")
               /\ CallIndexes(sendCalls, "sendEmail") = {}

ResolutionErrorsWitness ==
  /\ sendOutcome = Throw("Domain not found for team")
  /\ context.selectedDomainId = "d9"
  /\ \E i \in CallIndexes(sendCalls, "getDomainsByTeamId") :
       sendCalls[i].result = <<DomainV, DomainU>>

(***************************************************************************)
(* C18: the domain handed to sendEmail is the first of the list that       *)
(* getDomainsByTeamId returned when the context has no selectedDomainId,   *)
(* and the domain of the list with that id when it has one.                *)
(***************************************************************************)
DomainUsedForSend ==
  \A i \in CallIndexes(sendCalls, "getDomainsByTeamId"),
     j \in CallIndexes(sendCalls, "sendEmail") :
    LET domains == sendCalls[i].result
        used == sendCalls[j].result
    IN  /\ context.selectedDomainId = None => used = domains[1]
        /\ context.selectedDomainId # None
             => /\ used.domainId = context.selectedDomainId
                /\ \E k \in 1..Len(domains) : domains[k] = used

DomainUsedForSendWitness ==
  /\ context.selectedDomainId = "d1"
  /\ \E i \in CallIndexes(sendCalls, "getDomainsByTeamId") :
       sendCalls[i].result = <<DomainU, DomainV>>
  /\ \E j \in CallIndexes(sendCalls, "sendEmail") :
       sendCalls[j].ok /\ sendCalls[j].result = DomainV

(***************************************************************************)
(* C19: once validate has run, execute is rejected with the message of the *)
(* earliest kind of violation the input has, in the order from.address,    *)
(* empty to, to/cc/bcc entry without address, subject, body; an input      *)
(* without violation is not rejected with any of these messages.           *)
(***************************************************************************)
ValidationOrder ==
  spc \notin {"off", "validate"}
    => IF InputViolations(input) = {}
       THEN ~(sendOutcome.kind = "thrown" /\ sendOutcome.value \in ValidationMessages)
       ELSE /\ sendOutcome.kind = "thrown"
            /\ sendOutcome.value \in MessagesOfViolation(EarliestViolation(input))

ValidationOrderWitness ==
  /\ InputViolations(input) = {2, 4, 5}
  /\ sendOutcome = Throw("At least one To address is required")

(***************************************************************************)
(* C20: for an input with a violation no collaborator is ever called:      *)
(* the list of calls stays empty and email_logs stays as it was.           *)
(***************************************************************************)
ValidationHasNoSideEffects ==
  [][ InputViolations(input) # {}
        => /\ sendCalls' = <<>>
           /\ emailLogs' = emailLogs
           /\ spc' \in {"validate", "rejected"}
    ]_vars

ValidationHasNoSideEffectsWitness ==
  /\ sendOutcome = Throw("Email body is required (text or html)")
  /\ spc = "rejected"
  /\ sendCalls = <<>>
  /\ emailLogs = {OldLog}

(***************************************************************************)
(* C21: sendEmail is called at most once in a send; when it rejects,       *)
(* execute is rejected at once with the very error of sendEmail (the       *)
(* guard's error or 'Failed to send email via SES'), and neither sendEmail *)
(* nor the SES client is called again.                                     *)
(***************************************************************************)
DispatchRejectionPropagates ==
  [][ /\ Cardinality(CallIndexes(sendCalls', "sendEmail")) <= 1
      /\ Cardinality(CallIndexes(sendCalls', "ses.send")) <= 1
      /\ SesSendRejects
           => /\ sendOutcome' = [kind |-> "thrown", value |-> "Failed to send email via SES"]
              /\ spc' = "rejected"
      /\ \A i \in CallIndexes(sendCalls', "sendEmail") :
           ~sendCalls'[i].ok
             => /\ i = Len(sendCalls')
                /\ spc' = "rejected"
                /\ sendOutcome'.kind = "thrown"
                /\ sendOutcome'.value \in
                     {"Failed to send email via SES",
                      "Invalid sender address: missing domain part",
                      "Domain is not verified",
                      "Invalid sender domain"}
      /\ sendOutcome'.kind = "returned"
           => Cardinality(CallIndexes(sendCalls', "sendEmail")) = 1
    ]_vars

DispatchRejectionPropagatesWitness ==
  /\ spc = "rejected"
  /\ sendOutcome.value = "Failed to send email via SES"
  /\ Cardinality(CallIndexes(sendCalls, "sendEmail")) = 1
  /\ Cardinality(CallIndexes(sendCalls, "ses.send")) = 1
  /\ emailLogs = {}

(***************************************************************************)
(* C22: every sendEmail call made for a click on the Send button comes     *)
(* from SendMailUseCase.execute: the parsed data has no violation, the     *)
(* tenant and its domains were looked up before, sendEmail is given the    *)
(* resolved domain, and success is reported only after a saveEmailLog.     *)
(***************************************************************************)
SendActionInvokesPipeline ==
  /\ \A i \in CallIndexes(sendCalls, "sendEmail") :
       /\ InputViolations(input) = {}
       /\ \E j \in CallIndexes(sendCalls, "getTenantConfig") : j < i
       /\ \E j \in CallIndexes(sendCalls, "getDomainsByTeamId") : j < i
       /\ sendCalls[i].result # NoDomain
  /\ (\E k \in 1..Len(responses) : responses[k].kind = "sent")
       => \E j \in CallIndexes(sendCalls, "saveEmailLog") : sendCalls[j].ok

(***************************************************************************)
(* Vocabulary of the properties of the batch handler                       *)
(***************************************************************************)
StepsOf(log, op, index) ==
  {n \in 1..Len(log) : log[n].op = op /\ log[n].index = index}

FailedSteps(log) == SelectSeq(log, LAMBDA step : step.op = "failed")

\* the handler made for a record is between its call and its return or throw
DeliveryRunning == pc \in {"loop", "post", "postMessage", "upload", "update", "deadletter"}

BatchOver == bpc \in {"returned", "thrown"}

\* the storage key of a record, written out for the object keys
ExpectedKey(record) ==
  IF record.key = <<"a", "+", "b">> THEN <<"a", " ", "b">>
  ELSE IF record.key = <<"+">> THEN <<" ">>
  ELSE <<"a", "+">>

(***************************************************************************)
(* C23: while the handler made for a record is in its retry loop, sleeping *)
(* or dead-lettering, rawHandler takes no step; the loop moves to record   *)
(* i + 1 only when no handler is running and the last step taken is the    *)
(* end (processed or failed) of record i.                                  *)
(***************************************************************************)
RecordsProcessedSequentially ==
  [][ /\ DeliveryRunning
           => /\ batchLog' = batchLog
              /\ recordIndex' = recordIndex
              /\ bpc' = "deliver"
              /\ batchFailedRecords' = batchFailedRecords
      /\ recordIndex' # recordIndex
           => /\ recordIndex' = recordIndex + 1
              /\ pc = "off"
              /\ recordIndex > 0
                   => /\ batchLog[Len(batchLog)].index = recordIndex
                      /\ batchLog[Len(batchLog)].op \in {"processed", "failed"}
      /\ \A m, n \in 1..Len(batchLog') :
           m < n => batchLog'[m].index <= batchLog'[n].index
    ]_vars

RecordsProcessedSequentiallyWitness ==
  /\ recordIndex = 2
  /\ bpc = "deliver"
  /\ pc = "deadletter"
  /\ Len(sleeps) = 2
  /\ StepsOf(batchLog, "failed", 1) # {}
  /\ Len(batchFailedRecords) = 1
  /\ batchFailedRecords[1].error.type = "SlackPostError"

(***************************************************************************)
(* C24: when rawHandler is over, every record of the event has been begun  *)
(* exactly once and ended exactly once, as processed or as failed, also    *)
(* when an earlier record failed; before that no record is begun twice.    *)
(***************************************************************************)
EveryRecordAttemptedOnce ==
  /\ \A i \in 1..Len(event) :
       /\ Cardinality(StepsOf(batchLog, "begin", i)) <= 1
       /\ BatchOver
            => /\ Cardinality(StepsOf(batchLog, "begin", i)) = 1
               /\ Cardinality(StepsOf(batchLog, "processed", i)
                                \cup StepsOf(batchLog, "failed", i)) = 1
  /\ \A n \in 1..Len(batchLog) : batchLog[n].index \in 1..Len(event)

EveryRecordAttemptedOnceWitness ==
  /\ BatchOver
  /\ Len(event) = 2
  /\ StepsOf(batchLog, "failed", 1) # {}
  /\ StepsOf(batchLog, "fetched", 1) = {}
  /\ StepsOf(batchLog, "processed", 2) # {}

(***************************************************************************)
(* C25: rawHandler throws if and only if a record failed, and only when    *)
(* every record has been ended; the BatchProcessingError carries, in the   *)
(* order of processing, one entry per failed record with that record's     *)
(* bucket and storage key, and totalRecords is the length of the event.    *)
(***************************************************************************)
BatchErrorListsFailures ==
  /\ bpc = "returned" => FailedSteps(batchLog) = <<>> /\ batchOutcome.kind = "returned"
  /\ bpc = "thrown" => FailedSteps(batchLog) # <<>> /\ batchOutcome.kind = "thrown"
  /\ BatchOver
       => \A i \in 1..Len(event) :
            StepsOf(batchLog, "processed", i) \cup StepsOf(batchLog, "failed", i) # {}
  /\ batchOutcome.kind = "thrown"
       => /\ BatchOver
          /\ batchOutcome.totalRecords = Len(event)
          /\ Len(batchOutcome.failedRecords) = Len(FailedSteps(batchLog))
          /\ \A k \in 1..Len(batchOutcome.failedRecords) :
               LET record == event[FailedSteps(batchLog)[k].index]
               IN  /\ batchOutcome.failedRecords[k].key = ExpectedKey(record)
                   /\ batchOutcome.failedRecords[k].bucket = record.bucket
          /\ \A j, k \in 1..Len(FailedSteps(batchLog)) :
               j < k => FailedSteps(batchLog)[j].index < FailedSteps(batchLog)[k].index

BatchErrorListsFailuresWitness ==
  /\ batchOutcome.kind = "thrown"
  /\ batchOutcome.totalRecords = 2
  /\ Len(batchOutcome.failedRecords) = 1
  /\ batchOutcome.failedRecords[1].key = <<"a", "+">>
  /\ StepsOf(batchLog, "processed", 1) # {}
  /\ StepsOf(batchLog, "failed", 2) # {}

(***************************************************************************)
(* Vocabulary of the properties of the formatter                           *)
(***************************************************************************)
Formatted == formatResult.done

HeaderText == formatResult.blocks[1].text

ContentBlockText == formatResult.blocks[Len(formatResult.blocks)].text

BodyText == getEmailBodyText(formatInput.body)

\* a text that trimming leaves as it is
IsTrimmed(text) ==
  Len(text) > 0 => (text[1] \notin {" ", "\n"} /\ text[Len(text)] \notin {" ", "\n"})

EndsWithDots(text) ==
  /\ Len(text) >= 3
  /\ \A i \in (Len(text) - 2)..Len(text) : text[i] = "."

\* C26: for every Email whose subject has at most 140 characters
\* (including exactly 140), the header text is exactly the envelope prefix
\* followed by the subject, with no truncation.
ShortSubjectHeaderVerbatim ==
  (Formatted /\ Len(formatInput.subject) <= 140)
    => HeaderText = <<"D83D", "DCE7", " ">> \o formatInput.subject

\* C27: for every Email whose subject has more than 140 characters, the
\* header text has length exactly 140 and ends with "...".
LongSubjectHeaderTruncated ==
  (Formatted /\ Len(formatInput.subject) > 140)
    => /\ Len(HeaderText) = 140
       /\ EndsWithDots(HeaderText)

LongSubjectHeaderTruncatedWitness ==
  /\ Formatted
  /\ Len(formatInput.subject) = 141
  /\ Len(HeaderText) = 140
  /\ HeaderText[137] = "4"
  /\ HeaderText[138] = "."

\* C28: for every Email whose body text has at most 2800 characters
\* (including exactly 2800), no file attachment is produced and the body
\* text is embedded verbatim in the content block.
ShortBodyEmbeddedVerbatim ==
  (Formatted /\ Len(BodyText) <= 2800)
    => /\ ~formatResult.bodyAsFile.present
       /\ ContentBlockText = BodyText
       /\ (formatInput.body.text.has /\ Len(formatInput.body.text.value) > 0
             /\ IsTrimmed(formatInput.body.text.value))
            => ContentBlockText = formatInput.body.text.value

ShortBodyEmbeddedVerbatimWitness ==
  /\ Formatted
  /\ formatInput.body.text.has
  /\ Len(formatInput.body.text.value) = 2800
  /\ Len(ContentBlockText) = 2800
  /\ ~formatResult.bodyAsFile.present

\* C29: for every Email whose body text has more than 2800 characters, a
\* file attachment is produced whose content equals the full (trimmed) body
\* text and whose filename is email-body-{messageId}.txt, and the content
\* block holds a truncated copy of the body followed by the fixed
\* 'Full email body attached as file.' marker.
LongBodyAttachedAsFile ==
  (Formatted /\ Len(BodyText) > 2800)
    => /\ formatResult.bodyAsFile.present
       /\ formatResult.bodyAsFile.content = BodyText
       /\ IsTrimmed(formatResult.bodyAsFile.content)
       /\ formatResult.bodyAsFile.filename
            = <<"email-body-", formatInput.messageId, ".txt">>
       /\ Len(ContentBlockText) = 2800 + Len(AttachedNote)
       /\ SubSeq(ContentBlockText, 1, 2797) = SubSeq(BodyText, 1, 2797)
       /\ SubSeq(ContentBlockText, 2798, 2800) = <<".", ".", ".">>
       /\ SubSeq(ContentBlockText, 2801, Len(ContentBlockText)) = AttachedNote

LongBodyAttachedAsFileWitness ==
  /\ Formatted
  /\ formatInput.body.text.has
  /\ Len(formatInput.body.text.value) = 2803
  /\ formatResult.bodyAsFile.present
  /\ Len(formatResult.bodyAsFile.content) = 2801
  /\ formatInput.messageId = "m2"

(***************************************************************************)
(* Vocabulary of the properties of the message URL parser                  *)
(***************************************************************************)
\* https://<workspace>.slack.com/archives/<channelId>/p<digits>
PermalinkOf(workspace, channelId, digits) ==
  <<"h", "t", "t", "p", "s", ":", "/", "/">> \o workspace
    \o <<".", "s", "l", "a", "c", "k", ".", "c", "o", "m">>
    \o <<"/", "a", "r", "c", "h", "i", "v", "e", "s", "/">>
    \o channelId \o <<"/", "p">> \o digits

PermalinkWorkspaces == {<<"w">>, <<"a", ".", "b">>}
PermalinkChannels == {<<"C", "1">>}

\* C30: for a message URL of the form
\* https://<workspace>.slack.com/archives/<channelId>/p<digits>, parsing
\* returns the channelId and the timestamp '<first 10 digits>.<remaining
\* digits>' whenever there are at least 10 digits, and fails with a format
\* error whenever there are fewer than 10 digits.
PermalinkParsed ==
  \A w \in PermalinkWorkspaces, c \in PermalinkChannels, n \in 0..17 :
    (url = PermalinkOf(w, c, StringOfLength(n)) /\ parsedUrl.kind # "pending")
      => IF n >= 10
         THEN /\ parsedUrl.kind = "returned"
              /\ parsedUrl.channelId = c
              /\ Len(parsedUrl.timestamp) = n + 1
              /\ SubSeq(parsedUrl.timestamp, 1, 10) = StringOfLength(10)
              /\ parsedUrl.timestamp[11] = "."
              /\ \A i \in 12..(n + 1) :
                   parsedUrl.timestamp[i] = StringOfLength(n)[i - 1]
         ELSE /\ parsedUrl.kind = "thrown"
              /\ parsedUrl.name = "MessageUrlParseError"

PermalinkParsedWitness ==
  /\ url = PermalinkOf(<<"w">>, <<"C", "1">>, StringOfLength(10))
  /\ parsedUrl.kind = "returned"
  /\ Len(parsedUrl.timestamp) = 11

(***************************************************************************)
(* Vocabulary of the properties of ReceiveMailUseCase                      *)
(***************************************************************************)
\* an empty or whitespace-only storage key
BlankKey(key) == \A i \in 1..Len(key) : key[i] = " "

\* the failures collected for the record at index
FailuresOf(index) ==
  { j \in 1..Len(batchFailedRecords) :
      /\ Len(FailedSteps(batchLog)) >= j
      /\ FailedSteps(batchLog)[j].index = index }

\* C31: ReceiveMailUseCase.execute rejects an empty or whitespace-only
\* storageKey with the error 'storageKey cannot be empty' and does not call
\* the storage fetch in that case.
BlankStorageKeyRejected ==
  \A i \in 1..recordIndex :
    BlankKey(ExpectedKey(event[i]))
      => /\ ~(bpc = "fetch" /\ recordIndex = i)
         /\ StepsOf(batchLog, "fetched", i) = {}
         /\ \A j \in FailuresOf(i) :
              batchFailedRecords[j].error
                = [type |-> "Error", message |-> "storageKey cannot be empty"]

(***************************************************************************)
(* Vocabulary of the properties of the dead-letter record                  *)
(***************************************************************************)
\* the configured number of retries, 2 when none is configured
ConfiguredRetries ==
  IF "maxRetries" \in DOMAIN config THEN config["maxRetries"] ELSE 2

\* the chat platform accepted the post but sent no message reference
AcceptedWithoutReference(result) == result.ok /\ result.ts = None

\* the last chat-client call was the edit of the posted message, and it failed
EditFailedLast ==
  /\ calls # <<>>
  /\ calls[Len(calls)].op = "chat.update"
  /\ ~calls[Len(calls)].ok

\* C32: the attempts field of the FailedEmailRecord handed to the dead-letter
\* handler equals the number of post attempts actually made in that
\* invocation, and always satisfies 1 <= attempts <= maxRetries + 1; its
\* error and errorCode are those of the last failed attempt.
FailedRecordTellsAttempts ==
  \A i \in 1..Len(failedRecords) :
    /\ failedRecords[i].attempts = postCount
    /\ 1 <= failedRecords[i].attempts
    /\ failedRecords[i].attempts <= ConfiguredRetries + 1
    /\ lastError.type = "SlackPostError"
    /\ failedRecords[i].error.text # "Unknown error"
    /\ failedRecords[i].error.of = lastError
    /\ failedRecords[i].errorCode = lastError.code

\* C33: a post-message call that the platform accepted (response ok) but
\* whose response carries no message reference (ts) is not followed by
\* another post-message call for the same email in the same invocation: the
\* step that receives such a response ends the attempts.
NoRepostAfterAcceptedPost ==
  [][ \A result \in PostResults :
        (AcceptedWithoutReference(result) /\ PostMessageResolves(result))
          => (pc' = "loop" => retry' > ConfiguredRetries) ]_vars

\* C34: if, after a failed threaded upload, the edit of the original message
\* itself fails, the error raised by post is still the attachment-upload
\* error (code file_upload_error) and not an error derived from the failed
\* edit.
FailedEditKeepsUploadError ==
  (EditFailedLast /\ pc \in {"loop", "deadletter", "failed"})
    => /\ lastError.type = "SlackPostError"
       /\ lastError.code = "file_upload_error"

\* C35: if the dead-letter handler itself fails, the caller still receives
\* the last delivery error: a handler failure never replaces or hides it.
HandlerFailureKeepsDeliveryError ==
  (pc = "failed" /\ postCount >= 1)
    => /\ outcome.kind = "thrown"
       /\ outcome.error.type = "SlackPostError"
       /\ outcome.error.code = lastError.code

\* C37: for every configured maxRetries value, including 0 and negative
\* values, at least one post attempt is made before the dead-letter handler
\* is called, so the handler always receives attempts >= 1 and the re-raised
\* value is always an actual delivery error.
AtLeastOneAttempt ==
  /\ DeadLettering => (postCount >= 1 /\ attempts >= 1)
  /\ \A i \in 1..Len(failedRecords) : failedRecords[i].attempts >= 1
  /\ (pc = "failed" /\ ~onFailureMayReject) => outcome.error.type = "SlackPostError"

(***************************************************************************)
(* Further properties of the send path                                     *)
(***************************************************************************)
\* C36: send reports failure only if no email was dispatched: once the
\* mail-sending collaborator has accepted the email, send does not reject,
\* even when the subsequent EmailLog write fails.
FailureMeansNothingDispatched ==
  spc = "rejected"
    => \A i \in CallIndexes(sendCalls, "sendEmail") : ~sendCalls[i].ok

\* C38: the EmailLog is append-only: writing the log entry of a send never
\* overwrites or modifies an EmailLog entry that already exists.
EmailLogAppendOnly ==
  [][ \A row \in emailLogs : row \in emailLogs' ]_vars

\* C40: the sender-domain guard accepts a sender address only if the part
\* after its last '@' equals the resolved verified domain: an address
\* containing more than one '@' whose final domain differs from the verified
\* domain is rejected.
GuardChecksFinalDomain ==
  Dispatching
    => /\ selectedDomain.verificationStatus = "verified"
       /\ DomainOfAddress(input.from.value) = selectedDomain.domain

(***************************************************************************)
(* Further properties of the formatter                                     *)
(***************************************************************************)
\* C39: for every Email, the rendered header text never exceeds the
\* platform's 150-character ceiling and the rendered body content-block text
\* never exceeds the platform's 3000-character ceiling, counting the
\* ellipsis and the attached-as-file note.
RenderedTextUnderCeilings ==
  Formatted
    => /\ Len(HeaderText) <= 150
       /\ Len(ContentBlockText) <= 3000

RenderedTextUnderCeilingsWitness ==
  /\ Formatted
  /\ Len(formatInput.subject) = 200
  /\ Len(HeaderText) = 140
  /\ Len(BodyText) = 3100
  /\ Len(ContentBlockText) = 2837
====
